---- MODULE Spec2Model ----
(***************************************************************************)
(* Model of the deferred-post scheduler of DVP POST IO (post.py): the job  *)
(* table `tweets`, the credential table `users`, the flock-based instance  *)
(* lock and the poll loop of post_scheduled_tweets, one action per store   *)
(* statement or external call of the code.                                 *)
(***************************************************************************)
EXTENDS Integers, Sequences, FiniteSets, TLC

\* ---------------------------------------------------------------- bounds
NumJobs == 2
NumProcs == 2
MaxTime == 1
MaxFaults == 1
MaxRows == 4

\* ------------------------------------------------------ program constants
RetryCeiling == 3
BatchLimit == 5

JobIds == 1..NumJobs
Procs == 1..NumProcs
NoProc == 0
UserIds == {"alice", "bob"}

\* SQL NULL / Python None for the nullable columns and locals; a non-null
\* value is a non-empty tuple.
NULL == << >>

VARIABLES
    tweets,         \* the tweets table: [ids of the rows -> row]
    users,          \* the users table: [UserIds -> access_token or NULL (no row)]
    config,         \* the loaded config module: which settings are present
    faults,         \* number of store failures and kills so far
    now,            \* the clock (NOW() and datetime.now())
    lock_holder,    \* the process holding the flock on scheduler.lock, or NoProc
    pc,             \* [Procs -> position of the process in post_scheduled_tweets]
    batch,          \* [Procs -> rest of the fetched `tweets` list, head = current tweet]
    processing_id,  \* [Procs -> the local processing_id of the current claim, or NULL]
    access_token,   \* [Procs -> the local access_token of the current tweet, or NULL]
    timestamp,      \* [Procs -> the datetime.now() reading of the current claim, or NULL]
    published,      \* history: the jobs for which a status_post call succeeded
    attempts,       \* history: [Procs -> status_post calls made for the current claim]
    cycle_pubs,     \* history: [Procs -> jobs passed to status_post in the current cycle]
    last_post,      \* history: [Procs -> arguments of the status_post call of the current claim]
    issued,         \* history: the successful claims so far: job, clock reading, token
    failures,       \* history: [job -> publish failures reconciled under a matching token]
    lock_file,      \* the content of scheduler.lock: <<pid>> or NULL (empty)
    session,        \* web app: session["user_id"], or NULL when nobody is logged in
    request,        \* web app: the request being answered, or NULL
    response,       \* web app: the answer to it, or NULL
    sqlite_sequence \* web app: the largest id AUTOINCREMENT has given out

store == <<tweets, users>>
env == <<config, faults, now>>
locals == <<pc, batch, processing_id, access_token, timestamp>>
history == <<published, attempts, cycle_pubs, last_post, issued, failures>>
web == <<session, request, response, sqlite_sequence>>
vars == <<tweets, users, config, faults, now, lock_holder, pc, batch, processing_id,
          access_token, timestamp, published, attempts, cycle_pubs, last_post, issued, failures,
          lock_file, session, request, response, sqlite_sequence>>

\* ------------------------------------------------------------ pure helpers
Min(a, b) == IF a < b THEN a ELSE b

\* hashlib.md5(f"{tweet_id}_{timestamp}"): determined by the pair, and taken
\* to be injective on it.
Token(tweet_id, ts) == <<tweet_id, ts>>

\* Mutant: the due-jobs query without its schedule_time condition.
Due_IgnoreSchedule(j) == tweets[j].status = "pending"

\* WHERE schedule_time <= NOW() AND status = 'pending'
Due(j) == tweets[j].schedule_time <= now /\ tweets[j].status = "pending"

DueJobs == {j \in DOMAIN tweets : Due(j)}

IsInjective(s) == \A a, b \in 1..Len(s) : a # b => s[a] # s[b]

Range(s) == {s[a] : a \in 1..Len(s)}

\* Mutant: the due-jobs query without ORDER BY (rows in any order).
OrderedBySchedule_Unordered(s) == TRUE

\* ORDER BY schedule_time: ascending, rows with equal schedule_time in any order.
OrderedBySchedule(s) ==
    \A a, b \in 1..Len(s) :
        a < b => tweets[s[a]].schedule_time <= tweets[s[b]].schedule_time

\* Mutant: the due-jobs query without LIMIT.
DueBatches_NoLimit ==
    {s \in [1..Cardinality(DueJobs) -> DueJobs] :
        IsInjective(s) /\ OrderedBySchedule(s)}

\* The result sets the due-jobs query can return: the first LIMIT rows of the
\* due jobs in ascending schedule_time order.
DueBatches ==
    LET n == Min(Cardinality(DueJobs), BatchLimit)
    IN  {s \in [1..n -> DueJobs] :
            /\ IsInjective(s)
            /\ OrderedBySchedule(s)
            /\ \A j \in DueJobs \ Range(s) : \A a \in 1..n :
                   tweets[s[a]].schedule_time <= tweets[j].schedule_time}

\* COALESCE(visibility, 'public')
Coalesce(v, default) == IF v = NULL THEN default ELSE v

\* Mutant: the comparison with the caller's token is left out.
verify_processing_id_AnyToken(tweet_id, token) ==
    /\ tweet_id \in DOMAIN tweets
    /\ tweets[tweet_id].status = "processing"

\* verify_processing_id: SELECT processing_id ... WHERE id = %s AND status =
\* 'processing' (no row: False), then compare with the caller's token.
verify_processing_id(tweet_id, token) ==
    /\ tweet_id \in DOMAIN tweets
    /\ tweets[tweet_id].status = "processing"
    /\ tweets[tweet_id].processing_id = token

\* get_connection: psycopg2.connect(config.RENDER_DATABASE_URL) needs the
\* attribute to exist in the config module.
get_connection == config.RENDER_DATABASE_URL

\* check_config up to the connection attempt: every required attribute is set.
RequiredPresent == config.required

\* ---------------------------------------------------------------- Init
\* The text of job j, and its visibility column: NULL on rows written before the
\* column existed.
Message(j) == <<"message", j>>

Visibility(j) == IF j % 2 = 1 THEN NULL ELSE <<"unlisted">>

InitRow(u, t, m, v) ==
    [user_id |-> u, schedule_time |-> t, message |-> m, visibility |-> v,
     status |-> "pending", retry_count |-> 0,
     processing_id |-> NULL, processing_started |-> NULL, posted_at |-> NULL,
     error_message |-> NULL]

\* The tables the scheduler is started on: every job pending as add_tweet left
\* it. Schedule times are either all distinct (descending in id: the last jobs
\* already due, job 1 due at MaxTime) or all tied (every job due from the
\* start); the last job's owner may have no credential.
Schedules == {[j \in JobIds |-> MaxTime + 1 - j],
              [j \in JobIds |-> 0]}

Owners == {[j \in JobIds |-> "alice"],
           [j \in JobIds |-> IF j = NumJobs THEN "bob" ELSE "alice"]}

Configs ==
    {[required |-> TRUE, RENDER_DATABASE_URL |-> TRUE],
     [required |-> TRUE, RENDER_DATABASE_URL |-> FALSE],
     [required |-> FALSE, RENDER_DATABASE_URL |-> TRUE]}

Init ==
    /\ \E u \in Owners, t \in Schedules :
           tweets = [j \in JobIds |-> InitRow(u[j], t[j], Message(j), Visibility(j))]
    /\ users = [u \in UserIds |-> IF u = "alice" THEN <<"token_alice">> ELSE NULL]
    /\ config \in Configs
    /\ faults = 0
    /\ now = 0
    /\ lock_holder = NoProc
    /\ pc = [p \in Procs |-> "stopped"]
    /\ batch = [p \in Procs |-> << >>]
    /\ processing_id = [p \in Procs |-> NULL]
    /\ access_token = [p \in Procs |-> NULL]
    /\ timestamp = [p \in Procs |-> NULL]
    /\ published = {}
    /\ attempts = [p \in Procs |-> 0]
    /\ cycle_pubs = [p \in Procs |-> << >>]
    /\ last_post = [p \in Procs |-> NULL]
    /\ issued = {}
    /\ failures = [j \in DOMAIN tweets |-> 0]
    /\ lock_file = NULL
    /\ session = NULL /\ request = NULL /\ response = NULL
    /\ sqlite_sequence = NumJobs

\* ------------------------------------------------------- row updates (SET)
\* Mutant: the claim also moves the job's schedule_time to the claim time.
ClaimedRow_Reschedule(row, token) ==
    [row EXCEPT !.status = "processing", !.processing_id = token,
                !.processing_started = <<now>>, !.schedule_time = now]

\* SET status = 'processing', processing_id = %s, processing_started = NOW()
ClaimedRow(row, token) ==
    [row EXCEPT !.status = "processing", !.processing_id = token,
                !.processing_started = <<now>>]

\* Mutant: the reset puts the status back and leaves the token on the row.
PendingRow_KeepToken(row) == [row EXCEPT !.status = "pending"]

\* SET status = 'pending', processing_id = NULL, processing_started = NULL
PendingRow(row) ==
    [row EXCEPT !.status = "pending", !.processing_id = NULL,
                !.processing_started = NULL]

\* Mutant: the job is marked failed with its token left on the row.
FailedRow_KeepToken(row) == [row EXCEPT !.status = "failed"]

\* SET status = 'failed', processing_id = NULL, processing_started = NULL
FailedRow(row) ==
    [row EXCEPT !.status = "failed", !.processing_id = NULL,
                !.processing_started = NULL]

\* Mutant: marking a job posted also clears its retry count.
PostedRow_ClearsRetries(row) ==
    [row EXCEPT !.status = "posted", !.posted_at = <<now>>, !.retry_count = 0,
                !.processing_id = NULL, !.processing_started = NULL]

\* SET status = 'posted', posted_at = NOW(), processing_id = NULL,
\*     processing_started = NULL
PostedRow(row) ==
    [row EXCEPT !.status = "posted", !.posted_at = <<now>>,
                !.processing_id = NULL, !.processing_started = NULL]

\* Mutant: the ceiling compared with the count before the increment.
RetryRow_CheckBeforeIncrement(row) ==
    [row EXCEPT !.retry_count = @ + 1,
                !.status = IF row.retry_count >= RetryCeiling
                           THEN "failed" ELSE "pending",
                !.error_message = <<"error">>,
                !.processing_id = NULL, !.processing_started = NULL]

\* SET retry_count = COALESCE(retry_count, 0) + 1,
\*     status = CASE WHEN COALESCE(retry_count, 0) + 1 >= 3 THEN 'failed' ELSE 'pending' END,
\*     error_message = %s, processing_id = NULL, processing_started = NULL
RetryRow(row) ==
    [row EXCEPT !.retry_count = @ + 1,
                !.status = IF row.retry_count + 1 >= RetryCeiling
                           THEN "failed" ELSE "pending",
                !.error_message = <<"error">>,
                !.processing_id = NULL, !.processing_started = NULL]

\* ---------------------------------------------------- row conditions (WHERE)
\* Mutant: the claim's UPDATE without its status condition (WHERE id = %s).
WhereClaim_NoStatus(j, tweet_id) == j = tweet_id

\* WHERE id = %s AND status = 'pending'
WhereClaim(j, tweet_id) == j = tweet_id /\ tweets[j].status = "pending"

\* Mutant: a reconciliation UPDATE without its token condition (WHERE id = %s).
WhereToken_NoToken(j, tweet_id, token) == j = tweet_id

\* WHERE id = %s AND processing_id = %s
WhereToken(j, tweet_id, token) == j = tweet_id /\ tweets[j].processing_id = token

\* Mutant: the startup reset applied to every row that is not pending.
WhereProcessing_AnyStatus(j) == tweets[j].status # "pending"

\* WHERE status = 'processing'
WhereProcessing(j) == tweets[j].status = "processing"

\* ------------------------------------------------------- control-flow helpers
Goto(p, loc) == pc' = [pc EXCEPT ![p] = loc]

tweet_id(p) == Head(batch[p])

\* `continue`: on to the next tweet of the batch, or out of the for loop into
\* the finally block when the batch is exhausted.
Skip(p) ==
    /\ batch' = [batch EXCEPT ![p] = Tail(@)]
    /\ Goto(p, IF Len(batch[p]) > 1 THEN "claim_select" ELSE "release")
    /\ processing_id' = [processing_id EXCEPT ![p] = NULL]
    /\ access_token' = [access_token EXCEPT ![p] = NULL]
    /\ timestamp' = [timestamp EXCEPT ![p] = NULL]
    /\ attempts' = [attempts EXCEPT ![p] = 0]
    /\ last_post' = [last_post EXCEPT ![p] = NULL]

\* Mutant: the exception is not caught in the loop and ends the process.
Abort_Uncaught(p) ==
    /\ batch' = [batch EXCEPT ![p] = << >>]
    /\ Goto(p, "stopped")
    /\ processing_id' = [processing_id EXCEPT ![p] = NULL]
    /\ access_token' = [access_token EXCEPT ![p] = NULL]
    /\ timestamp' = [timestamp EXCEPT ![p] = NULL]
    /\ attempts' = [attempts EXCEPT ![p] = 0]
    /\ last_post' = [last_post EXCEPT ![p] = NULL]

\* An exception that reaches `except (Exception, psycopg2.Error)` of the main
\* loop: the rest of the batch is dropped and the finally block runs.
Abort(p) ==
    /\ batch' = [batch EXCEPT ![p] = << >>]
    /\ Goto(p, "release")
    /\ processing_id' = [processing_id EXCEPT ![p] = NULL]
    /\ access_token' = [access_token EXCEPT ![p] = NULL]
    /\ timestamp' = [timestamp EXCEPT ![p] = NULL]
    /\ attempts' = [attempts EXCEPT ![p] = 0]
    /\ last_post' = [last_post EXCEPT ![p] = NULL]

\* A store error inside a handler that logs, calls conn.rollback() and goes on:
\* the rollback either works (continue) or raises into the main loop's handler.
RollbackThenSkip(p) == Skip(p) \/ Abort(p)

\* A store failure or a kill: counted, and bounded by MaxFaults.
Fault == faults < MaxFaults /\ faults' = faults + 1

\* -------------------------------------------------------------- startup
\* The process is started and runs check_config: False when a required
\* attribute is missing or the connection cannot be made;
\* post_scheduled_tweets then returns.
CheckConfig(p) ==
    /\ pc[p] = "stopped"
    /\ Goto(p, IF RequiredPresent /\ get_connection THEN "ensure_schema" ELSE "stopped")
    /\ UNCHANGED <<store, env, lock_holder, batch, processing_id, access_token, timestamp, history, lock_file, web>>

\* check_config: the store is unreachable.
CheckConfigError(p) ==
    /\ pc[p] = "stopped"
    /\ Fault
    /\ Goto(p, "stopped")
    /\ UNCHANGED <<store, config, now, lock_holder, batch, processing_id, access_token, timestamp, history, lock_file, web>>

\* ensure_schema_updated returns True (the columns exist).
EnsureSchema(p) ==
    /\ pc[p] = "ensure_schema"
    /\ Goto(p, "reset")
    /\ UNCHANGED <<store, env, lock_holder, batch, processing_id, access_token, timestamp, history, lock_file, web>>

\* The schema check fails or raises: post_scheduled_tweets returns.
EnsureSchemaError(p) ==
    /\ pc[p] = "ensure_schema"
    /\ Fault
    /\ Goto(p, "stopped")
    /\ UNCHANGED <<store, config, now, lock_holder, batch, processing_id, access_token, timestamp, history, lock_file, web>>

\* Mutant: the startup reset puts every row back to pending.
StartupReset_AllRows(p) ==
    /\ pc[p] = "reset"
    /\ tweets' = [j \in DOMAIN tweets |-> PendingRow(tweets[j])]
    /\ Goto(p, "acquire")
    /\ UNCHANGED <<users, env, lock_holder, batch, processing_id, access_token, timestamp, history, lock_file, web>>

\* Reset any tweets stuck in 'processing' state, then enter the main loop.
StartupReset(p) ==
    /\ pc[p] = "reset"
    /\ tweets' = [j \in DOMAIN tweets |->
                     IF WhereProcessing(j) THEN PendingRow(tweets[j]) ELSE tweets[j]]
    /\ Goto(p, "acquire")
    /\ UNCHANGED <<users, env, lock_holder, batch, processing_id, access_token, timestamp, history, lock_file, web>>

\* The reset raises: logged, rolled back, and the main loop is entered anyway.
StartupResetError(p) ==
    /\ pc[p] = "reset"
    /\ Fault
    /\ Goto(p, "acquire")
    /\ UNCHANGED <<store, config, now, lock_holder, batch, processing_id, access_token, timestamp, history, lock_file, web>>

\* ------------------------------------------------------------ instance lock
\* Mutant: the lock is taken whether or not another process holds it.
AcquireLock_NoExclusion(p) ==
    /\ pc[p] = "acquire"
    /\ lock_holder' = p
    /\ lock_file' = <<p>>
    /\ Goto(p, "fetch")
    /\ UNCHANGED <<store, env, batch, processing_id, access_token, timestamp, history, web>>

\* acquire_lock: open(lock_file, 'w') empties the file, then
\* flock(LOCK_EX | LOCK_NB) succeeds iff no process holds the lock; on success
\* the PID is written, on IOError None is returned.
AcquireLock(p) ==
    /\ pc[p] = "acquire"
    /\ IF lock_holder = NoProc
       THEN lock_holder' = p /\ lock_file' = <<p>> /\ Goto(p, "fetch")
       ELSE lock_holder' = lock_holder /\ lock_file' = NULL /\ Goto(p, "sleep_wait")
    /\ UNCHANGED <<store, env, batch, processing_id, access_token, timestamp, history, web>>

\* Mutant: the finally block goes on without unlocking.
ReleaseLock_KeepsLock(p) ==
    /\ pc[p] = "release"
    /\ cycle_pubs' = [cycle_pubs EXCEPT ![p] = << >>]
    /\ Goto(p, "sleep")
    /\ UNCHANGED <<store, env, lock_holder, batch, processing_id, access_token, timestamp,
                   published, attempts, last_post, issued, failures, lock_file, web>>

\* release_lock in the finally block (a no-op when lock_fd is None).
ReleaseLock(p) ==
    /\ pc[p] = "release"
    /\ lock_holder' = IF lock_holder = p THEN NoProc ELSE lock_holder
    /\ cycle_pubs' = [cycle_pubs EXCEPT ![p] = << >>]
    /\ Goto(p, "sleep")
    /\ UNCHANGED <<store, env, batch, processing_id, access_token, timestamp, published, attempts,
                   last_post, issued, failures, lock_file, web>>

\* time.sleep(10) after a failed acquire, then `continue`.
SleepWaiting(p) ==
    /\ pc[p] = "sleep_wait"
    /\ now' = Min(now + 1, MaxTime)
    /\ Goto(p, "acquire")
    /\ UNCHANGED <<store, config, faults, lock_holder, batch, processing_id, access_token, timestamp, history, lock_file, web>>

\* Mutant: the end of a cycle goes back to acquire_lock without sleeping.
Sleep_NoWait(p) ==
    /\ pc[p] = "sleep"
    /\ Goto(p, "acquire")
    /\ UNCHANGED <<store, env, lock_holder, batch, processing_id, access_token, timestamp, history, lock_file, web>>

\* time.sleep(10) at the end of a cycle.
Sleep(p) ==
    /\ pc[p] = "sleep"
    /\ now' = Min(now + 1, MaxTime)
    /\ Goto(p, "acquire")
    /\ UNCHANGED <<store, config, faults, lock_holder, batch, processing_id, access_token, timestamp, history, lock_file, web>>

\* Time passes.
Tick ==
    /\ now < MaxTime
    /\ now' = now + 1
    /\ UNCHANGED <<store, config, faults, lock_holder, locals, history, lock_file, web>>

\* ------------------------------------------------------------- poll cycle
\* conn_main = get_connection(); SELECT ... WHERE schedule_time <= NOW() AND
\* status = 'pending' ORDER BY schedule_time LIMIT 5; tweets = cur.fetchall()
Fetch(p) ==
    /\ pc[p] = "fetch"
    /\ \E s \in DueBatches :
           /\ batch' = [batch EXCEPT ![p] = s]
           /\ Goto(p, IF Len(s) > 0 THEN "claim_select" ELSE "release")
    /\ UNCHANGED <<store, env, lock_holder, processing_id, access_token, timestamp, history, lock_file, web>>

\* The connection or the query raises: caught at the loop boundary.
FetchError(p) ==
    /\ pc[p] = "fetch"
    /\ Fault
    /\ Goto(p, "release")
    /\ UNCHANGED <<store, config, now, lock_holder, batch, processing_id, access_token, timestamp, history, lock_file, web>>

\* Mutant: mark_as_processing without its SELECT: the UPDATE is always tried.
ClaimSelect_NoSelect(p) ==
    /\ pc[p] = "claim_select"
    /\ timestamp' = [timestamp EXCEPT ![p] = <<now>>]
    /\ processing_id' = [processing_id EXCEPT ![p] = Token(tweet_id(p), now)]
    /\ Goto(p, "claim_update")
    /\ UNCHANGED <<store, env, lock_holder, batch, access_token, history, lock_file, web>>

\* mark_as_processing, first statement: the token is computed, then
\* SELECT status FROM tweets WHERE id = %s; no row or not pending -> return False.
ClaimSelect(p) ==
    /\ pc[p] = "claim_select"
    /\ IF tweet_id(p) \in DOMAIN tweets /\ tweets[tweet_id(p)].status = "pending"
       THEN /\ timestamp' = [timestamp EXCEPT ![p] = <<now>>]
            /\ processing_id' = [processing_id EXCEPT ![p] = Token(tweet_id(p), now)]
            /\ Goto(p, "claim_update")
            /\ UNCHANGED <<batch, access_token, attempts, last_post>>
       ELSE Skip(p)
    /\ UNCHANGED <<store, env, lock_holder, published, cycle_pubs, issued, failures, lock_file, web>>

\* mark_as_processing, second statement: UPDATE ... WHERE id = %s AND status =
\* 'pending'; rowcount 0 -> rollback, return False; else commit, return the token.
ClaimUpdate(p) ==
    /\ pc[p] = "claim_update"
    /\ IF \E j \in DOMAIN tweets : WhereClaim(j, tweet_id(p))
       THEN /\ tweets' = [j \in DOMAIN tweets |->
                             IF WhereClaim(j, tweet_id(p))
                             THEN ClaimedRow(tweets[j], processing_id[p])
                             ELSE tweets[j]]
            /\ issued' = issued \cup {[job |-> tweet_id(p),
                                         time |-> timestamp[p],
                                         token |-> processing_id[p]]}
            /\ Goto(p, "get_token")
            /\ UNCHANGED <<batch, processing_id, access_token, timestamp, attempts, last_post>>
       ELSE /\ Skip(p)
            /\ UNCHANGED <<tweets, issued>>
    /\ UNCHANGED <<users, env, lock_holder, published, cycle_pubs, failures, lock_file, web>>

\* mark_as_processing raises inside: logged, conn.rollback(), return False.
ClaimError(p) ==
    /\ pc[p] \in {"claim_select", "claim_update"}
    /\ Fault
    /\ RollbackThenSkip(p)
    /\ UNCHANGED <<store, config, now, lock_holder, published, cycle_pubs, issued, failures, lock_file, web>>

\* SELECT access_token FROM users WHERE mastodon_id = %s
GetToken(p) ==
    /\ pc[p] = "get_token"
    /\ access_token' = [access_token EXCEPT ![p] = users[tweets[tweet_id(p)].user_id]]
    /\ Goto(p, IF users[tweets[tweet_id(p)].user_id] # NULL
               THEN "verify_pre" ELSE "fail_no_token")
    /\ UNCHANGED <<store, env, lock_holder, batch, processing_id, timestamp, history, lock_file, web>>

\* The credential lookup raises: the handler tries to reset the claim.
GetTokenError(p) ==
    /\ pc[p] = "get_token"
    /\ Fault
    /\ Goto(p, "reset_claim")
    /\ UNCHANGED <<store, config, now, lock_holder, batch, processing_id, access_token, timestamp, history, lock_file, web>>

\* Mutant: the reset after a failed credential lookup counts as a retry.
ResetClaim_CountsRetry(p) ==
    /\ pc[p] = "reset_claim"
    /\ tweets' = [j \in DOMAIN tweets |->
                     IF WhereToken(j, tweet_id(p), processing_id[p])
                     THEN RetryRow(tweets[j]) ELSE tweets[j]]
    /\ Skip(p)
    /\ UNCHANGED <<users, env, lock_holder, published, cycle_pubs, issued, failures, lock_file, web>>

\* UPDATE tweets SET status='pending', ... WHERE id = %s AND processing_id = %s
ResetClaim(p) ==
    /\ pc[p] = "reset_claim"
    /\ tweets' = [j \in DOMAIN tweets |->
                     IF WhereToken(j, tweet_id(p), processing_id[p])
                     THEN PendingRow(tweets[j]) ELSE tweets[j]]
    /\ Skip(p)
    /\ UNCHANGED <<users, env, lock_holder, published, cycle_pubs, issued, failures, lock_file, web>>

\* The reset raises too (the same store failure): logged, conn_main.rollback(),
\* continue.
ResetClaimError(p) ==
    /\ pc[p] = "reset_claim"
    /\ RollbackThenSkip(p)
    /\ UNCHANGED <<store, env, lock_holder, published, cycle_pubs, issued, failures, lock_file, web>>

\* Mutant: the job without credential is passed over with its claim left on the row.
FailNoToken_ClaimLeft(p) ==
    /\ pc[p] = "fail_no_token"
    /\ Skip(p)
    /\ UNCHANGED <<store, env, lock_holder, published, cycle_pubs, issued, failures, lock_file, web>>

\* No access token: UPDATE tweets SET status = 'failed', ... WHERE id = %s AND
\* processing_id = %s; commit; continue.
FailNoToken(p) ==
    /\ pc[p] = "fail_no_token"
    /\ tweets' = [j \in DOMAIN tweets |->
                     IF WhereToken(j, tweet_id(p), processing_id[p])
                     THEN FailedRow(tweets[j]) ELSE tweets[j]]
    /\ Skip(p)
    /\ UNCHANGED <<users, env, lock_holder, published, cycle_pubs, issued, failures, lock_file, web>>

\* The update raises: logged, conn_main.rollback(), continue.
FailNoTokenError(p) ==
    /\ pc[p] = "fail_no_token"
    /\ Fault
    /\ RollbackThenSkip(p)
    /\ UNCHANGED <<store, config, now, lock_holder, published, cycle_pubs, issued, failures, lock_file, web>>

\* Mutant: the call is made without the ownership check before it.
VerifyBeforePost_NoCheck(p) ==
    /\ pc[p] = "verify_pre"
    /\ Goto(p, "publish")
    /\ UNCHANGED <<store, env, lock_holder, batch, processing_id, access_token, timestamp, history, lock_file, web>>

\* Verify we still own the processing lock before posting.
VerifyBeforePost(p) ==
    /\ pc[p] = "verify_pre"
    /\ IF verify_processing_id(tweet_id(p), processing_id[p])
       THEN Goto(p, "publish") /\ UNCHANGED <<batch, processing_id, access_token, timestamp, attempts, last_post>>
       ELSE Skip(p)
    /\ UNCHANGED <<store, env, lock_holder, published, cycle_pubs, issued, failures, lock_file, web>>

\* Mastodon(access_token=access_token, ...).status_post(status=message,
\* visibility=visibility): the arguments of the call.
StatusPost(p) ==
    [status |-> tweets[tweet_id(p)].message,
     visibility |-> Coalesce(tweets[tweet_id(p)].visibility, <<"public">>),
     access_token |-> access_token[p]]

\* mastodon_client.status_post(...) returns.
Publish(p) ==
    /\ pc[p] = "publish"
    /\ published' = published \cup {tweet_id(p)}
    /\ attempts' = [attempts EXCEPT ![p] = @ + 1]
    /\ cycle_pubs' = [cycle_pubs EXCEPT ![p] = Append(@, tweet_id(p))]
    /\ last_post' = [last_post EXCEPT ![p] = StatusPost(p)]
    /\ Goto(p, "verify_post")
    /\ UNCHANGED <<store, env, lock_holder, batch, processing_id, access_token, timestamp, issued, failures, lock_file, web>>

\* Mutant: an exception of the call is swallowed and the success path goes on.
PublishError_Swallowed(p) ==
    /\ pc[p] = "publish"
    /\ attempts' = [attempts EXCEPT ![p] = @ + 1]
    /\ cycle_pubs' = [cycle_pubs EXCEPT ![p] = Append(@, tweet_id(p))]
    /\ last_post' = [last_post EXCEPT ![p] = StatusPost(p)]
    /\ Goto(p, "verify_post")
    /\ UNCHANGED <<store, env, lock_holder, batch, processing_id, access_token, timestamp, published,
                   issued, failures, lock_file, web>>

\* mastodon_client.status_post(...) raises: post_error = e.
PublishError(p) ==
    /\ pc[p] = "publish"
    /\ attempts' = [attempts EXCEPT ![p] = @ + 1]
    /\ cycle_pubs' = [cycle_pubs EXCEPT ![p] = Append(@, tweet_id(p))]
    /\ last_post' = [last_post EXCEPT ![p] = StatusPost(p)]
    /\ Goto(p, "verify_err")
    /\ UNCHANGED <<store, env, lock_holder, batch, processing_id, access_token, timestamp, published,
                   issued, failures, lock_file, web>>

\* Mutant: the posted UPDATE is run without the ownership check before it.
VerifyAfterPost_NoCheck(p) ==
    /\ pc[p] = "verify_post"
    /\ Goto(p, "mark_posted")
    /\ UNCHANGED <<store, env, lock_holder, batch, processing_id, access_token, timestamp, history, lock_file, web>>

\* Verify lock again before final update.
VerifyAfterPost(p) ==
    /\ pc[p] = "verify_post"
    /\ IF verify_processing_id(tweet_id(p), processing_id[p])
       THEN Goto(p, "mark_posted") /\ UNCHANGED <<batch, processing_id, access_token, timestamp, attempts, last_post>>
       ELSE Skip(p)
    /\ UNCHANGED <<store, env, lock_holder, published, cycle_pubs, issued, failures, lock_file, web>>

\* Mutant: the posted UPDATE also sets retry_count back to 0.
MarkPosted_ClearsRetries(p) ==
    /\ pc[p] = "mark_posted"
    /\ tweets' = [j \in DOMAIN tweets |->
                     IF WhereToken(j, tweet_id(p), processing_id[p])
                     THEN [PostedRow(tweets[j]) EXCEPT !.retry_count = 0]
                     ELSE tweets[j]]
    /\ Skip(p)
    /\ UNCHANGED <<users, env, lock_holder, published, cycle_pubs, issued, failures, lock_file, web>>

\* UPDATE tweets SET status = 'posted', ... WHERE id = %s AND processing_id = %s;
\* rowcount 0 -> rollback, else commit.
MarkPosted(p) ==
    /\ pc[p] = "mark_posted"
    /\ tweets' = [j \in DOMAIN tweets |->
                     IF WhereToken(j, tweet_id(p), processing_id[p])
                     THEN PostedRow(tweets[j]) ELSE tweets[j]]
    /\ Skip(p)
    /\ UNCHANGED <<users, env, lock_holder, published, cycle_pubs, issued, failures, lock_file, web>>

\* Mutant: the statement takes effect although it raised (no rollback).
MarkPostedError_NoRollback(p) ==
    /\ pc[p] = "mark_posted"
    /\ Fault
    /\ tweets' = [j \in DOMAIN tweets |->
                     IF WhereToken(j, tweet_id(p), processing_id[p])
                     THEN [tweets[j] EXCEPT !.status = "posted"] ELSE tweets[j]]
    /\ RollbackThenSkip(p)
    /\ UNCHANGED <<users, config, now, lock_holder, published, cycle_pubs, issued, failures, lock_file, web>>

\* The update raises: logged, conn_main.rollback(); the tweet stays as it is.
MarkPostedError(p) ==
    /\ pc[p] = "mark_posted"
    /\ Fault
    /\ RollbackThenSkip(p)
    /\ UNCHANGED <<store, config, now, lock_holder, published, cycle_pubs, issued, failures, lock_file, web>>

\* Mutant: after a failed call the publish is tried again within the claim.
VerifyAfterError_RetryPublish(p) ==
    /\ pc[p] = "verify_err"
    /\ IF verify_processing_id(tweet_id(p), processing_id[p])
       THEN Goto(p, "publish")
            /\ UNCHANGED <<batch, processing_id, access_token, timestamp, attempts, last_post>>
       ELSE Skip(p)
    /\ UNCHANGED <<store, env, lock_holder, published, cycle_pubs, issued, failures, lock_file, web>>

\* Verify lock again before updating status after error.
VerifyAfterError(p) ==
    /\ pc[p] = "verify_err"
    /\ IF verify_processing_id(tweet_id(p), processing_id[p])
       THEN Goto(p, "mark_retry") /\ UNCHANGED <<batch, processing_id, access_token, timestamp, attempts, last_post>>
       ELSE Skip(p)
    /\ UNCHANGED <<store, env, lock_holder, published, cycle_pubs, issued, failures, lock_file, web>>

\* Mutant: after a failed publish the job is only put back to pending.
MarkRetry_ResetOnly(p) ==
    /\ pc[p] = "mark_retry"
    /\ tweets' = [j \in DOMAIN tweets |->
                     IF WhereToken(j, tweet_id(p), processing_id[p])
                     THEN PendingRow(tweets[j]) ELSE tweets[j]]
    /\ Skip(p)
    /\ UNCHANGED <<users, env, lock_holder, published, cycle_pubs, issued, failures, lock_file, web>>

\* UPDATE tweets SET retry_count = ..., status = CASE ..., ... WHERE id = %s AND
\* processing_id = %s; rowcount 0 -> rollback, else commit.
MarkRetry(p) ==
    /\ pc[p] = "mark_retry"
    /\ tweets' = [j \in DOMAIN tweets |->
                     IF WhereToken(j, tweet_id(p), processing_id[p])
                     THEN RetryRow(tweets[j]) ELSE tweets[j]]
    /\ failures' = [j \in DOMAIN tweets |->
                       IF WhereToken(j, tweet_id(p), processing_id[p])
                       THEN failures[j] + 1 ELSE failures[j]]
    /\ Skip(p)
    /\ UNCHANGED <<users, env, lock_holder, published, cycle_pubs, issued, lock_file, web>>

\* The update raises: logged, conn_main.rollback().
MarkRetryError(p) ==
    /\ pc[p] = "mark_retry"
    /\ Fault
    /\ RollbackThenSkip(p)
    /\ UNCHANGED <<store, config, now, lock_holder, published, cycle_pubs, issued, failures, lock_file, web>>

\* verify_processing_id raises inside: logged, returns False; the caller skips
\* the tweet without writing.
VerifyError(p) ==
    /\ pc[p] \in {"verify_pre", "verify_post", "verify_err"}
    /\ Fault
    /\ Skip(p)
    /\ UNCHANGED <<store, config, now, lock_holder, published, cycle_pubs, issued, failures, lock_file, web>>

\* The process is killed (signal, Ctrl+C): the OS drops its flock.
Crash(p) ==
    /\ pc[p] # "stopped"
    /\ Fault
    /\ Goto(p, "stopped")
    /\ lock_holder' = IF lock_holder = p THEN NoProc ELSE lock_holder
    /\ batch' = [batch EXCEPT ![p] = << >>]
    /\ processing_id' = [processing_id EXCEPT ![p] = NULL]
    /\ access_token' = [access_token EXCEPT ![p] = NULL]
    /\ timestamp' = [timestamp EXCEPT ![p] = NULL]
    /\ attempts' = [attempts EXCEPT ![p] = 0]
    /\ last_post' = [last_post EXCEPT ![p] = NULL]
    /\ cycle_pubs' = [cycle_pubs EXCEPT ![p] = << >>]
    /\ UNCHANGED <<store, config, now, published, issued, failures, lock_file, web>>

\* ------------------------------------------------------------ specifications
\* Steps of a process when no store operation fails and nothing is killed.
Normal(p) ==
    \/ CheckConfig(p) \/ EnsureSchema(p) \/ StartupReset(p)
    \/ AcquireLock(p) \/ SleepWaiting(p) \/ Fetch(p)
    \/ ClaimSelect(p) \/ ClaimUpdate(p) \/ GetToken(p) \/ FailNoToken(p)
    \/ VerifyBeforePost(p) \/ Publish(p) \/ PublishError(p)
    \/ VerifyAfterPost(p) \/ MarkPosted(p) \/ VerifyAfterError(p) \/ MarkRetry(p)
    \/ ReleaseLock(p) \/ Sleep(p)

\* Store failures at each store operation.
StoreError(p) ==
    \/ CheckConfigError(p) \/ EnsureSchemaError(p) \/ StartupResetError(p)
    \/ FetchError(p) \/ ClaimError(p) \/ GetTokenError(p)
    \/ ResetClaim(p) \/ ResetClaimError(p) \/ FailNoTokenError(p)
    \/ VerifyError(p) \/ MarkPostedError(p) \/ MarkRetryError(p)

NextNormal == Tick \/ \E p \in Procs : Normal(p)

Next == Tick \/ \E p \in Procs : Normal(p) \/ StoreError(p) \/ Crash(p)

\* Every execution.
Spec == Init /\ [][Next]_vars

\* The executions with no process crash and no store failure.
SpecNormal == Init /\ [][NextNormal]_vars

TypeOK ==
    /\ pc \in [Procs -> {"stopped", "ensure_schema", "reset", "acquire",
                         "sleep_wait", "fetch", "claim_select", "claim_update",
                         "get_token", "reset_claim", "fail_no_token", "verify_pre",
                         "publish", "verify_post", "mark_posted", "verify_err",
                         "mark_retry", "release", "sleep"}]
    /\ lock_holder \in Procs \cup {NoProc}
    /\ now \in 0..MaxTime
    /\ faults \in 0..MaxFaults
    /\ \A p \in Procs : pc[p] \in {"claim_select", "claim_update", "get_token",
                                   "reset_claim", "fail_no_token", "verify_pre",
                                   "publish", "verify_post", "mark_posted",
                                   "verify_err", "mark_retry"} => Len(batch[p]) > 0

\* ---------------------------------------------- concurrent claim attempts
\* mark_as_processing called by every process on one pending job, with no
\* instance lock around the calls: the statements interleave freely.
InitClaim ==
    /\ \E u \in Owners, t \in Schedules :
           \E st \in [JobIds -> {"pending", "processing", "posted", "failed"}] :
               tweets = [j \in JobIds |->
                   CASE st[j] = "pending" -> InitRow(u[j], t[j], Message(j), Visibility(j))
                     [] st[j] = "processing" ->
                            [InitRow(u[j], t[j], Message(j), Visibility(j)) EXCEPT
                                !.status = "processing",
                                !.processing_id = Token(j, 0),
                                !.processing_started = <<0>>]
                     [] st[j] = "posted" ->
                            [InitRow(u[j], t[j], Message(j), Visibility(j)) EXCEPT
                                !.status = "posted", !.posted_at = <<0>>]
                     [] OTHER -> [InitRow(u[j], t[j], Message(j), Visibility(j)) EXCEPT !.status = "failed"]]
    /\ users = [u \in UserIds |-> IF u = "alice" THEN <<"token_alice">> ELSE NULL]
    /\ config = [required |-> TRUE, RENDER_DATABASE_URL |-> TRUE]
    /\ faults = 0
    /\ now = 0
    /\ lock_holder = NoProc
    /\ pc = [p \in Procs |-> "claim_select"]
    /\ \E j \in JobIds :
           /\ tweets[j].status = "pending"
           /\ batch = [p \in Procs |-> <<j>>]
    /\ processing_id = [p \in Procs |-> NULL]
    /\ access_token = [p \in Procs |-> NULL]
    /\ timestamp = [p \in Procs |-> NULL]
    /\ published = {}
    /\ attempts = [p \in Procs |-> 0]
    /\ cycle_pubs = [p \in Procs |-> << >>]
    /\ last_post = [p \in Procs |-> NULL]
    /\ issued = {}
    /\ failures = [j \in DOMAIN tweets |-> 0]
    /\ lock_file = NULL
    /\ session = NULL /\ request = NULL /\ response = NULL
    /\ sqlite_sequence = NumJobs

NextClaim == Tick \/ \E p \in Procs : ClaimSelect(p) \/ ClaimUpdate(p)

SpecClaim == InitClaim /\ [][NextClaim]_vars

\* The attempts of SpecClaim that returned a token / returned False.
ClaimWinners == {p \in Procs : pc[p] = "get_token"}

ClaimLosers == {p \in Procs : pc[p] = "release"}

\* C1: claim exclusivity. Of the interleaved mark_as_processing attempts on one
\* pending job at most one ever succeeds; once all have returned exactly one
\* has succeeded, the row is processing under the winner's token with its other
\* fields as they were, and every other attempt returned False (no token).
C1_ClaimExclusive ==
    /\ Cardinality(ClaimWinners) <= 1
    /\ \A p \in ClaimLosers : processing_id[p] = NULL
    /\ \A w \in ClaimWinners :
           LET row == tweets[tweet_id(w)]
           IN  /\ row.status = "processing"
               /\ row.processing_id = processing_id[w]
               /\ processing_id[w] # NULL
               /\ row.retry_count = 0
               /\ row.posted_at = NULL
               /\ row.error_message = NULL
    /\ ClaimWinners \cup ClaimLosers = Procs => Cardinality(ClaimWinners) = 1

\* C1 witness: one attempt has won while another, which read the row as pending,
\* is about to run its UPDATE and observe 0 rows.
C1_Witness ==
    \E w \in ClaimWinners : \E q \in Procs :
        /\ pc[q] = "claim_update"
        /\ tweet_id(q) = tweet_id(w)

\* ------------------------------------------------------- claims: vocabulary
\* Process p takes a step.
Steps(p) == pc'[p] # pc[p]

\* p's step is the claim's UPDATE taking job j from pending to processing
\* under p's fresh token.
AtomicClaim(p, j) ==
    /\ pc[p] = "claim_update" /\ pc'[p] = "get_token"
    /\ tweet_id(p) = j
    /\ tweets[j].status = "pending"
    /\ tweets'[j].processing_id = processing_id[p]

\* p's step is one of the UPDATE ... WHERE id = %s AND processing_id = %s
\* statements, on job j, presenting the token stored on the row.
TokenWrite(p, j) ==
    /\ pc[p] \in {"reset_claim", "fail_no_token", "mark_posted", "mark_retry"}
    /\ Steps(p)
    /\ tweet_id(p) = j
    /\ processing_id[p] # NULL
    /\ tweets[j].processing_id = processing_id[p]

\* p's step is the startup reset.
StartupResetStep(p) == pc[p] = "reset" /\ pc'[p] = "acquire"

\* C2 (as claimed): with no crash and no store failure the publish call
\* succeeds at most once per job, and a job becomes posted only by a
\* token-matching reconciliation after that successful publish.
C2_NoDoublePublish ==
    [][/\ \A p \in Procs :
              pc[p] = "publish" /\ pc'[p] = "verify_post" => tweet_id(p) \notin published
       /\ \A j \in JobIds :
              tweets[j].status # "posted" /\ tweets'[j].status = "posted" =>
                  j \in published /\ \E p \in Procs : TokenWrite(p, j)]_vars

\* C3 (as claimed): a job's status changes only by the atomic claim (into
\* processing) or, out of processing, by a write presenting the row's token.
C3_OnlyTokenWrites ==
    [][\A j \in JobIds :
           tweets'[j].status # tweets[j].status =>
               \/ tweets'[j].status = "processing" /\ \E p \in Procs : AtomicClaim(p, j)
               \/ tweets[j].status = "processing" /\ \E p \in Procs : TokenWrite(p, j)]_vars

\* C3 (amended): a job's status changes only by the atomic claim, by a write
\* presenting the row's token, or by the startup reset, which takes a processing
\* job to pending without presenting any token.
C3_TokenWritesOrStartupReset ==
    [][\A j \in JobIds :
           tweets'[j].status # tweets[j].status =>
               \/ tweets'[j].status = "processing" /\ \E p \in Procs : AtomicClaim(p, j)
               \/ tweets[j].status = "processing" /\ \E p \in Procs : TokenWrite(p, j)
               \/ /\ tweets[j].status = "processing"
                  /\ tweets'[j].status = "pending"
                  /\ \E p \in Procs : StartupResetStep(p)]_vars

\* C3 witness: one job has left processing by a token write (posted) while
\* another is processing with a starting process about to reset it.
C3_Witness ==
    /\ \E j \in JobIds : tweets[j].status = "posted"
    /\ \E j \in JobIds : tweets[j].status = "processing"
    /\ \E p \in Procs : pc[p] = "reset"

\* C4: idempotent reconciliation. A step of the success or failure
\* reconciliation whose token is not the one stored on the row leaves every
\* field of the row as it was.
C4_StaleTokenNoWrite ==
    [][\A p \in Procs :
           /\ pc[p] \in {"verify_post", "mark_posted", "verify_err", "mark_retry"}
           /\ Steps(p)
           /\ tweets[tweet_id(p)].processing_id # processing_id[p]
           => tweets'[tweet_id(p)] = tweets[tweet_id(p)]]_vars

\* C4 witness: a reconciliation UPDATE is about to run with a token that the
\* row no longer holds (it passed the verify step and was reset since).
C4_Witness ==
    \E p \in Procs :
        /\ pc[p] \in {"mark_posted", "mark_retry"}
        /\ tweets[tweet_id(p)].processing_id # processing_id[p]

\* C5: retry ceiling. retry_count only ever grows by 1, and only by a write on
\* a processing row that leaves it pending while the new count is below 3 and
\* failed when it is 3; a job whose owner has a credential becomes failed only
\* at the step that takes the count from 2 to 3.
C5_RetryCeiling ==
    [][\A j \in JobIds :
           LET old == tweets[j]
               new == tweets'[j]
           IN  /\ new.retry_count \in {old.retry_count, old.retry_count + 1}
               /\ new.retry_count <= RetryCeiling
               /\ new.retry_count = RetryCeiling => new.status = "failed"
               /\ new.retry_count = old.retry_count + 1 =>
                      /\ old.status = "processing"
                      /\ new.status = IF new.retry_count = RetryCeiling
                                      THEN "failed" ELSE "pending"
               /\ new.status = "failed" /\ old.status # "failed" =>
                      \/ /\ old.retry_count = RetryCeiling - 1
                         /\ new.retry_count = RetryCeiling
                      \/ /\ users[old.user_id] = NULL
                         /\ new.retry_count = old.retry_count]_vars

\* C5 witness: a job has failed three times and is failed with retry_count 3.
C5_Witness ==
    \E j \in JobIds :
        tweets[j].status = "failed" /\ tweets[j].retry_count = RetryCeiling

\* ------------------------------------------------------------ stall recovery
\* The scheduler's own scheduling: a process that is running takes its next
\* step (the loop never blocks: the lock is non-blocking, sleeps end). Whether
\* and when a stopped process is started is up to the operator. The handler
\* that resets a claim after a failed credential lookup runs to its end too.
Running(p) ==
    /\ pc[p] # "stopped"
    /\ Normal(p) \/ ResetClaim(p) \/ ResetClaimError(p)

SpecFair == Init /\ [][Next]_vars /\ \A p \in Procs : WF_vars(Running(p))

\* Positions between a successful claim and its reconciliation.
ClaimHeld == {"get_token", "reset_claim", "fail_no_token", "verify_pre", "publish",
              "verify_post", "mark_posted", "verify_err", "mark_retry"}

\* Job j is processing and no running process is working on that claim: it was
\* left behind by a kill or by a failed reconciliation write.
Orphaned(j) ==
    /\ tweets[j].status = "processing"
    /\ \A p \in Procs :
           ~(pc[p] \in ClaimHeld /\ tweet_id(p) = j
             /\ processing_id[p] = tweets[j].processing_id)

CycleLocs == {"fetch", "claim_select", "claim_update", "release"} \cup ClaimHeld

\* C7: instance lock exclusion. A process inside a poll cycle (fetching,
\* claiming, publishing, reconciling) is the holder of the lock, so at most one
\* process is ever inside a cycle; an acquire succeeds exactly when the lock is
\* free, and a process that fails to acquire changes nothing and goes to sleep
\* and then tries again instead of stopping.
C7_LockExclusion ==
    /\ [](\A p \in Procs : pc[p] \in CycleLocs => lock_holder = p)
    /\ [][\A p \in Procs :
              /\ pc[p] = "acquire" /\ Steps(p) /\ faults' = faults =>
                     IF lock_holder = NoProc
                     THEN lock_holder' = p /\ pc'[p] = "fetch"
                     ELSE /\ lock_holder' = lock_holder
                          /\ pc'[p] = "sleep_wait"
                          /\ tweets' = tweets /\ published' = published
              /\ pc[p] = "sleep_wait" /\ Steps(p) /\ faults' = faults =>
                     pc'[p] = "acquire" /\ lock_holder' = lock_holder]_vars

\* C7 witness: one process waits for the lock while the other, holding it, is
\* in the middle of a claim.
C7_Witness ==
    \E p, q \in Procs :
        /\ pc[p] = "sleep_wait"
        /\ pc[q] \in ClaimHeld
        /\ lock_holder = q

\* ------------------------------------------------------- order within a batch
ScheduleOf(j) == tweets[j].schedule_time

\* C8: ordering within a batch. In every cycle the jobs passed to the publish
\* call so far are in ascending schedule_time order, and every job still to be
\* handled in this cycle is scheduled no earlier than any of them.
C8_BatchOrder ==
    \A p \in Procs :
        /\ \A a, b \in 1..Len(cycle_pubs[p]) :
               a < b => ScheduleOf(cycle_pubs[p][a]) <= ScheduleOf(cycle_pubs[p][b])
        /\ \A a, b \in 1..Len(batch[p]) :
               a < b => ScheduleOf(batch[p][a]) <= ScheduleOf(batch[p][b])
        /\ \A a \in 1..Len(cycle_pubs[p]) : \A b \in 1..Len(batch[p]) :
               ScheduleOf(cycle_pubs[p][a]) <= ScheduleOf(batch[p][b])

\* C8 witness: three jobs with t1 < t2 < t3 have been published in one cycle.
C8_Witness ==
    \E p \in Procs :
        /\ Len(cycle_pubs[p]) >= 3
        /\ ScheduleOf(cycle_pubs[p][1]) < ScheduleOf(cycle_pubs[p][2])
        /\ ScheduleOf(cycle_pubs[p][2]) < ScheduleOf(cycle_pubs[p][3])

\* ------------------------------------------------------------- only due jobs
\* C9: only due jobs are touched. A job whose schedule_time is still in the
\* future is in no process's batch, has never been passed to the publish call,
\* and its row is exactly as it was created.
C9_OnlyDueTouched ==
    \A j \in JobIds :
        tweets[j].schedule_time > now =>
            /\ tweets[j] = InitRow(tweets[j].user_id, tweets[j].schedule_time,
                                   tweets[j].message, tweets[j].visibility)
            /\ j \notin published
            /\ \A p \in Procs :
                   j \notin Range(batch[p]) /\ j \notin Range(cycle_pubs[p])

\* C9 witness: a cycle has run to its end and posted a due job while another
\* job is still scheduled in the future.
C9_Witness ==
    /\ \E j \in JobIds : tweets[j].schedule_time > now
    /\ \E j \in JobIds : tweets[j].status = "posted"
    /\ \E p \in Procs : pc[p] = "sleep"

\* -------------------------------------------------------- missing credential
\* C10 (as claimed): a claimed job whose owner has no credential goes from
\* processing to failed and never back to pending, with the token cleared and
\* retry_count as it was, and the publish call is never made for it.
C10_NoCredentialFails ==
    [][\A j \in JobIds :
           users[tweets[j].user_id] = NULL =>
               /\ tweets[j].status = "processing" =>
                      tweets'[j].status \in {"processing", "failed"}
               /\ tweets'[j].retry_count = tweets[j].retry_count
               /\ \A p \in Procs :
                      /\ pc[p] = "publish" => tweet_id(p) # j
                      /\ pc[p] = "fail_no_token" /\ tweet_id(p) = j /\ Steps(p) =>
                             /\ attempts[p] = 0
                             /\ tweets'[j].status = "failed"
                             /\ tweets'[j].processing_id = NULL]_vars

\* ------------------------------------------------------- token presence
\* C11: ownership token presence. In every state a row has a non-null
\* processing_id if and only if its status is processing, and likewise a
\* non-null processing_started.
C11_TokenIffProcessing ==
    \A j \in DOMAIN tweets :
        /\ tweets[j].processing_id # NULL <=> tweets[j].status = "processing"
        /\ tweets[j].processing_started # NULL <=> tweets[j].status = "processing"

\* C11 witness: one job is processing under a token while the other has been
\* reconciled to failed after counted failures and holds no token any more.
C11_Witness ==
    /\ \E j \in DOMAIN tweets :
           tweets[j].status = "processing" /\ tweets[j].processing_id # NULL
    /\ \E j \in DOMAIN tweets :
           /\ tweets[j].status = "failed" /\ tweets[j].retry_count = RetryCeiling
           /\ tweets[j].processing_id = NULL

\* ------------------------------------------------------------------ startup
\* Positions of post_scheduled_tweets before the poll loop.
StartupLocs == {"stopped", "ensure_schema", "reset"}

\* C12 (as claimed): with a required setting missing no process ever leaves
\* the stopped state, and a startup step at which the store cannot be reached
\* ends the process: it does not go on towards the poll loop.
C12_StartupFatal ==
    /\ [](~(RequiredPresent /\ get_connection) => \A p \in Procs : pc[p] = "stopped")
    /\ [][\A p \in Procs :
              pc[p] \in StartupLocs /\ Steps(p) /\ faults' # faults
              => pc'[p] = "stopped"]_vars

\* ------------------------------------------- failed reconciliation writes
\* Process p is about to run the posted or the retry UPDATE for job j, and its
\* token is the one on the row.
ReconcileOwned(p, j) ==
    /\ pc[p] \in {"mark_posted", "mark_retry"}
    /\ tweet_id(p) = j
    /\ WhereToken(j, tweet_id(p), processing_id[p])

Solo == 1

SoloNormal ==
    \/ CheckConfig(Solo) \/ EnsureSchema(Solo) \/ StartupReset(Solo)
    \/ AcquireLock(Solo) \/ Fetch(Solo)
    \/ ClaimSelect(Solo) \/ ClaimUpdate(Solo) \/ GetToken(Solo) \/ FailNoToken(Solo)
    \/ VerifyBeforePost(Solo) \/ Publish(Solo) \/ PublishError(Solo)
    \/ VerifyAfterPost(Solo) \/ MarkPosted(Solo)
    \/ VerifyAfterError(Solo) \/ MarkRetry(Solo)
    \/ ReleaseLock(Solo) \/ Sleep(Solo)

NextSolo == Tick \/ SoloNormal \/ StoreError(Solo) \/ Crash(Solo)

\* The single process with store failures and kills; while it is running it
\* takes its next step.
SpecSolo == Init /\ [][NextSolo]_vars /\ WF_vars(Running(Solo))

\* Positions inside `while True`.
LoopLocs == {"acquire", "sleep_wait", "sleep"} \cup CycleLocs

\* C14: the poll loop survives a failing cycle. A process inside the loop
\* leaves it only by being killed; a store failure inside a cycle leaves the
\* process inside that cycle, still holding the lock; the end of a cycle
\* releases the lock and goes to sleep; and every cycle that is not killed
\* reaches that sleep, after which the next cycle starts.
C14_LoopSurvives ==
    /\ [][\A p \in Procs :
              /\ pc[p] \in LoopLocs /\ pc'[p] \notin LoopLocs => Crash(p)
              /\ pc[p] \in CycleLocs /\ Steps(p) /\ faults' # faults /\ ~Crash(p) =>
                     pc'[p] \in CycleLocs /\ lock_holder' = p
              /\ pc[p] = "release" /\ Steps(p) /\ ~Crash(p) =>
                     pc'[p] = "sleep" /\ lock_holder' = NoProc]_vars
    /\ [](pc[Solo] \in CycleLocs => <>(pc[Solo] \in {"sleep", "stopped"}))
    /\ [](pc[Solo] = "sleep" => <>(pc[Solo] \in {"acquire", "stopped"}))

\* C14 witness: a cycle that found due jobs is at its finally block without any
\* claim ever having succeeded: it was cut short by an exception.
C14_Witness ==
    \E p \in Procs :
        /\ pc[p] = "release"
        /\ lock_holder = p
        /\ faults > 0
        /\ issued = {}
        /\ now = 0
        /\ DueJobs # {}

\* --------------------------------------------------------- more than a batch
\* One more job than the due-jobs query returns, all due from the start with
\* distinct schedule times; the second job's owner has no credential.
ManyJobIds == 1..(BatchLimit + 1)

InitMany ==
    /\ tweets = [j \in ManyJobIds |->
                    InitRow(IF j = 2 THEN "bob" ELSE "alice", j - (BatchLimit + 1),
                            Message(j), Visibility(j))]
    /\ users = [u \in UserIds |-> IF u = "alice" THEN <<"token_alice">> ELSE NULL]
    /\ config = [required |-> TRUE, RENDER_DATABASE_URL |-> TRUE]
    /\ faults = 0
    /\ now = 0
    /\ lock_holder = NoProc
    /\ pc = [p \in Procs |-> "stopped"]
    /\ batch = [p \in Procs |-> << >>]
    /\ processing_id = [p \in Procs |-> NULL]
    /\ access_token = [p \in Procs |-> NULL]
    /\ timestamp = [p \in Procs |-> NULL]
    /\ published = {}
    /\ attempts = [p \in Procs |-> 0]
    /\ cycle_pubs = [p \in Procs |-> << >>]
    /\ last_post = [p \in Procs |-> NULL]
    /\ issued = {}
    /\ failures = [j \in DOMAIN tweets |-> 0]
    /\ lock_file = NULL
    /\ session = NULL /\ request = NULL /\ response = NULL
    /\ sqlite_sequence = Cardinality(ManyJobIds)

NextMany == Tick \/ SoloNormal

\* One scheduler, started and running, the store reachable, every publish call
\* returning (with success or with an error).
SpecMany == InitMany /\ [][NextMany]_vars /\ WF_vars(SoloNormal)

\* C15: eventual processing. With one running scheduler and a reachable store
\* every job that is pending and due is claimed at some later time, also with
\* more jobs due than one batch holds and publish calls failing; and every job
\* ends up posted or failed for good.
C15_EventuallyProcessed ==
    \A j \in ManyJobIds :
        /\ [](Due(j) => <>(tweets[j].status = "processing"))
        /\ <>[](tweets[j].status \in {"posted", "failed"})

\* C15 witness: the job that did not fit into the first batch has been posted
\* after the first job failed three times.
C15_Witness ==
    /\ tweets[1].status = "failed" /\ tweets[1].retry_count = RetryCeiling
    /\ tweets[BatchLimit + 1].status = "posted"

\* ------------------------------------------------------- the publish call
\* C16: publish is attempted exactly once per claim. Before the call the claim
\* has made no status_post call; from the call on it has made exactly one, with
\* the job's message, its visibility ('public' when the column is null) and
\* the owner's credential; a claim whose token verifies goes on to the call and
\* the call is reached in no other way; no claim ever makes a second call.
C16_PublishOncePerClaim ==
    /\ [](\A p \in Procs :
              /\ attempts[p] <= 1
              /\ pc[p] \in {"get_token", "reset_claim", "fail_no_token",
                            "verify_pre", "publish"} =>
                     attempts[p] = 0 /\ last_post[p] = NULL
              /\ pc[p] \in {"verify_post", "mark_posted", "verify_err", "mark_retry"} =>
                     /\ attempts[p] = 1
                     /\ last_post[p] =
                            [status |-> tweets[tweet_id(p)].message,
                             visibility |->
                                 IF tweets[tweet_id(p)].visibility = NULL
                                 THEN <<"public">>
                                 ELSE tweets[tweet_id(p)].visibility,
                             access_token |-> users[tweets[tweet_id(p)].user_id]]
                     /\ last_post[p].access_token # NULL)
    /\ [][\A p \in Procs :
              /\ /\ pc[p] = "verify_pre" /\ Steps(p) /\ faults' = faults
                 /\ verify_processing_id(tweet_id(p), processing_id[p])
                 => pc'[p] = "publish"
              /\ pc[p] = "publish" /\ Steps(p) /\ faults' = faults =>
                     attempts'[p] = 1 /\ pc'[p] \in {"verify_post", "verify_err"}
              /\ pc'[p] = "publish" /\ Steps(p) => pc[p] = "verify_pre"]_vars

\* C16 witness: a job whose earlier claim ended in a failed call has been
\* claimed again, and the one call of this claim has failed too.
C16_Witness ==
    \E p \in Procs :
        /\ pc[p] = "mark_retry"
        /\ attempts[p] = 1
        /\ tweets[tweet_id(p)].retry_count > 0

\* ------------------------------------------------------------------ frame
\* The columns the scheduler never writes.
FrameColumns == {"user_id", "message", "visibility", "schedule_time"}

\* C17: frame. No step changes the set of job rows, the owner, message,
\* visibility or schedule_time of any row, or the credential table.
C17_Frame ==
    [][/\ DOMAIN tweets' = DOMAIN tweets
       /\ \A j \in DOMAIN tweets : \A c \in FrameColumns : tweets'[j][c] = tweets[j][c]
       /\ users' = users]_vars

\* C17 witness: one job has been posted and another has failed with an error
\* text; both still carry the message they were created with.
C17_Witness ==
    \E j, k \in DOMAIN tweets :
        /\ tweets[j].status = "posted" /\ tweets[j].message = Message(j)
        /\ tweets[k].status = "failed" /\ tweets[k].error_message # NULL
        /\ tweets[k].message = Message(k)

\* ----------------------------------------------------------- token freshness
\* C18: ownership tokens are fresh and unique. Every successful claim stores a
\* token that no earlier claim of any job has stored and that no other process
\* holds, and no two rows hold the same token.
C18_TokensFresh ==
    /\ [](\A j, k \in DOMAIN tweets :
              j # k /\ tweets[j].processing_id # NULL =>
                  tweets[j].processing_id # tweets[k].processing_id)
    /\ [][\A p \in Procs : \A j \in DOMAIN tweets :
              AtomicClaim(p, j) =>
                  /\ \A r \in issued : r.token # tweets'[j].processing_id
                  /\ \A q \in Procs \ {p} : processing_id[q] # tweets'[j].processing_id]_vars

\* ------------------------------------------------- claims on advanced rows
Statuses == {"pending", "processing", "posted", "failed"}

\* A row in one of the states a job can be in.
RowWithStatus(j, u, t, st) ==
    CASE st = "pending" -> InitRow(u, t, Message(j), Visibility(j))
      [] st = "processing" ->
             [InitRow(u, t, Message(j), Visibility(j)) EXCEPT
                 !.status = "processing", !.processing_id = Token(j, 0),
                 !.processing_started = <<0>>]
      [] st = "posted" ->
             [InitRow(u, t, Message(j), Visibility(j)) EXCEPT
                 !.status = "posted", !.posted_at = <<0>>]
      [] OTHER -> [InitRow(u, t, Message(j), Visibility(j)) EXCEPT !.status = "failed"]

\* mark_as_processing called on the two jobs of a fetched batch whose rows have
\* moved on since the fetch: each row is in any status, and one row may have
\* been deleted.
InitMark ==
    /\ \E u \in Owners, t \in Schedules, st \in [JobIds -> Statuses],
          gone \in {{}} \cup {{j} : j \in JobIds} :
           tweets = [j \in JobIds \ gone |-> RowWithStatus(j, u[j], t[j], st[j])]
    /\ users = [u \in UserIds |-> IF u = "alice" THEN <<"token_alice">> ELSE NULL]
    /\ config = [required |-> TRUE, RENDER_DATABASE_URL |-> TRUE]
    /\ faults = 0
    /\ now = 0
    /\ lock_holder = NoProc
    /\ pc = [p \in Procs |-> "claim_select"]
    /\ \E j, k \in JobIds :
           j # k /\ batch = [p \in Procs |-> <<j, k>>]
    /\ processing_id = [p \in Procs |-> NULL]
    /\ access_token = [p \in Procs |-> NULL]
    /\ timestamp = [p \in Procs |-> NULL]
    /\ published = {}
    /\ attempts = [p \in Procs |-> 0]
    /\ cycle_pubs = [p \in Procs |-> << >>]
    /\ last_post = [p \in Procs |-> NULL]
    /\ issued = {}
    /\ failures = [j \in DOMAIN tweets |-> 0]
    /\ lock_file = NULL
    /\ session = NULL /\ request = NULL /\ response = NULL
    /\ sqlite_sequence = NumJobs

SpecMark == InitMark /\ [][NextClaim]_vars

\* The row of job j is missing or is not pending.
NotPending(j) == j \notin DOMAIN tweets \/ tweets[j].status # "pending"

\* C19: a claim on a job that is not pending fails without effect. A step of
\* mark_as_processing that finds the row missing or not pending changes no row
\* and no history, returns no token, and the caller goes on to the next job of
\* its batch (or to the end of the cycle) without a publish call.
C19_ClaimNotPending ==
    [][\A p \in Procs :
           /\ pc[p] \in {"claim_select", "claim_update"}
           /\ batch'[p] # batch[p] \/ pc'[p] # pc[p]
           /\ NotPending(tweet_id(p))
           => /\ tweets' = tweets /\ users' = users
              /\ published' = published /\ cycle_pubs' = cycle_pubs
              /\ issued' = issued
              /\ processing_id'[p] = NULL /\ attempts'[p] = 0
              /\ batch'[p] = Tail(batch[p])
              /\ pc'[p] = IF Len(batch[p]) > 1 THEN "claim_select" ELSE "release"]_vars

\* C19 witness: a process has skipped the first job of its batch, whose row is
\* missing, and has claimed the second.
C19_Witness ==
    \E p \in Procs :
        /\ DOMAIN tweets # JobIds
        /\ Len(batch[p]) = 1
        /\ pc[p] = "get_token"
        /\ \A j \in DOMAIN tweets : tweets[j].status = "pending" \/ j = tweet_id(p)

\* ----------------------------------------------------- success reconciliation
\* C20: success reconciliation. The posted UPDATE of a process whose token is
\* the one on the row, made after its publish call succeeded, turns the row
\* into status posted with posted_at set to the time of the write and token and
\* claim timestamp cleared; retry_count and every other column, and every
\* other row, stay as they were.
C20_MarkPosted ==
    [][\A p \in Procs : \A j \in DOMAIN tweets :
           /\ pc[p] = "mark_posted" /\ tweet_id(p) = j
           /\ Steps(p) /\ faults' = faults
           /\ tweets[j].processing_id = processing_id[p]
           => /\ j \in published /\ attempts[p] = 1
              /\ tweets'[j] = [tweets[j] EXCEPT !.status = "posted",
                                                !.posted_at = <<now>>,
                                                !.processing_id = NULL,
                                                !.processing_started = NULL]
              /\ tweets'[j].posted_at # NULL
              /\ \A k \in DOMAIN tweets \ {j} : tweets'[k] = tweets[k]]_vars

\* C20 witness: a job that had failed before has been posted: it is posted with
\* posted_at set and its retry count kept.
C20_Witness ==
    \E j \in DOMAIN tweets :
        /\ tweets[j].status = "posted"
        /\ tweets[j].posted_at # NULL
        /\ tweets[j].retry_count > 0
        /\ tweets[j].processing_id = NULL

\* ----------------------------------------------------- failure reconciliation
\* C21: failure reconciliation counts each failed attempt once. In every state
\* a job's retry_count is the number of its publish failures that were
\* reconciled under a matching token; and the retry UPDATE of a process whose
\* token is the one on the row, made after its one publish call failed, adds
\* exactly 1 to retry_count and in the same write sets the status (failed when
\* the new count is 3 or more, pending otherwise), stores the error text and
\* clears token and claim timestamp.
C21_FailureCountedOnce ==
    /\ [](\A j \in DOMAIN tweets : tweets[j].retry_count = failures[j])
    /\ [][\A p \in Procs : \A j \in DOMAIN tweets :
              /\ pc[p] = "mark_retry" /\ tweet_id(p) = j
              /\ Steps(p) /\ faults' = faults
              /\ tweets[j].processing_id = processing_id[p]
              => /\ attempts[p] = 1
                 /\ tweets'[j] =
                        [tweets[j] EXCEPT
                            !.retry_count = tweets[j].retry_count + 1,
                            !.status = IF tweets[j].retry_count + 1 >= RetryCeiling
                                       THEN "failed" ELSE "pending",
                            !.error_message = <<"error">>,
                            !.processing_id = NULL,
                            !.processing_started = NULL]
                 /\ \A k \in DOMAIN tweets \ {j} : tweets'[k] = tweets[k]]_vars

\* C21 witness: a job has had two publish failures reconciled and is pending
\* again, below the ceiling.
C21_Witness ==
    \E j \in DOMAIN tweets :
        /\ failures[j] = 2
        /\ tweets[j].retry_count = 2
        /\ tweets[j].status = "pending"
        /\ tweets[j].processing_id = NULL

\* --------------------------------------------------- claim before attempt
\* C22: claim before attempt. A process is at the publish call only for the job
\* it claimed in this cycle: it holds the instance lock and the token of that
\* claim; a claim is entered only by the claim's UPDATE and kept for one job;
\* and the call is reached only from the ownership check that has just read the
\* row as processing under the caller's token.
C22_ClaimBeforeAttempt ==
    /\ [](\A p \in Procs :
              pc[p] = "publish" =>
                  /\ lock_holder = p
                  /\ processing_id[p] # NULL
                  /\ [job |-> tweet_id(p), time |-> timestamp[p],
                      token |-> processing_id[p]] \in issued)
    /\ [][\A p \in Procs :
              /\ pc'[p] = "get_token" /\ Steps(p) =>
                     AtomicClaim(p, tweet_id(p)) /\ batch'[p] = batch[p]
              /\ pc'[p] \in ClaimHeld \ {"get_token"} /\ Steps(p) =>
                     /\ pc[p] \in ClaimHeld
                     /\ batch'[p] = batch[p]
                     /\ processing_id'[p] = processing_id[p]
              /\ pc'[p] = "publish" /\ Steps(p) =>
                     /\ pc[p] = "verify_pre"
                     /\ tweets[tweet_id(p)].status = "processing"
                     /\ tweets[tweet_id(p)].processing_id = processing_id[p]
              /\ pc[p] = "publish" /\ Steps(p) /\ faults' = faults =>
                     cycle_pubs'[p] = Append(cycle_pubs[p], tweet_id(p))]_vars

\* C22 witness: a process is at the publish call for the job it claimed, and
\* the row, read as processing by the check, has since been reset to pending by
\* a starting process.
C22_Witness ==
    \E p \in Procs :
        /\ pc[p] = "publish"
        /\ tweets[tweet_id(p)].status = "pending"

\* -------------------------------------------------------- lost ownership
\* C23: lost ownership stops the caller. A step of an ownership check (before
\* the call, after its success, after its failure) that finds the row not
\* processing or under another token writes no row, makes no publish call and
\* counts no retry: the caller drops the claim and goes on to the next job or
\* to the end of the cycle.
C23_LostOwnershipStops ==
    [][\A p \in Procs :
           /\ pc[p] \in {"verify_pre", "verify_post", "verify_err"}
           /\ Steps(p)
           /\ ~verify_processing_id(tweet_id(p), processing_id[p])
           => /\ tweets' = tweets
              /\ published' = published
              /\ failures' = failures
              /\ pc'[p] \in {"claim_select", "release", "stopped"}
              /\ processing_id'[p] = NULL
              /\ attempts'[p] = 0
              /\ pc'[p] # "stopped" =>
                     batch'[p] = Tail(batch[p]) /\ cycle_pubs'[p] = cycle_pubs[p]]_vars

\* C23 witness: a process whose publish call has been made is at the check
\* after it, and the row is no longer processing under its token.
C23_Witness ==
    \E p \in Procs :
        /\ pc[p] \in {"verify_post", "verify_err"}
        /\ attempts[p] = 1
        /\ ~verify_processing_id(tweet_id(p), processing_id[p])

\* ------------------------------------------------- the lock between cycles
\* Two scheduler processes on a table with one due job, whose owner may have no
\* credential; store failures and kills included; every running process takes
\* its next step.
InitPair ==
    /\ \E u \in UserIds :
           tweets = [j \in {1} |-> InitRow(u, 0, Message(j), Visibility(j))]
    /\ users = [u \in UserIds |-> IF u = "alice" THEN <<"token_alice">> ELSE NULL]
    /\ config = [required |-> TRUE, RENDER_DATABASE_URL |-> TRUE]
    /\ faults = 0
    /\ now = 0
    /\ lock_holder = NoProc
    /\ pc = [p \in Procs |-> "stopped"]
    /\ batch = [p \in Procs |-> << >>]
    /\ processing_id = [p \in Procs |-> NULL]
    /\ access_token = [p \in Procs |-> NULL]
    /\ timestamp = [p \in Procs |-> NULL]
    /\ published = {}
    /\ attempts = [p \in Procs |-> 0]
    /\ cycle_pubs = [p \in Procs |-> << >>]
    /\ last_post = [p \in Procs |-> NULL]
    /\ issued = {}
    /\ failures = [j \in DOMAIN tweets |-> 0]
    /\ lock_file = NULL
    /\ session = NULL /\ request = NULL /\ response = NULL
    /\ sqlite_sequence = 1

SpecPair == InitPair /\ [][Next]_vars /\ \A p \in Procs : WF_vars(Running(p))

\* C24: the instance lock is held only during a poll cycle. The holder of the
\* lock is inside a cycle; every step that takes a process out of a cycle
\* (the finally block after no due jobs, after the last job, after a skipped
\* job or an exception; a kill) leaves the lock free, and the finally block
\* leads to the sleep; so a sleeping or waiting process never holds the lock,
\* and a lock that is held is free again at some later time, when a waiting
\* process can take it.
C24_LockOnlyInCycle ==
    /\ [](\A p \in Procs : lock_holder = p => pc[p] \in CycleLocs)
    /\ [](\A p \in Procs : pc[p] \in {"sleep", "sleep_wait"} => lock_holder # p)
    /\ [][\A p \in Procs :
              /\ pc[p] \in CycleLocs /\ pc'[p] \notin CycleLocs =>
                     lock_holder' = NoProc /\ pc'[p] \in {"sleep", "stopped"}
              /\ pc[p] \in CycleLocs /\ pc'[p] = "sleep" => pc[p] = "release"]_vars
    /\ \A p \in Procs : [](lock_holder = p => <>(lock_holder = NoProc))

\* C24 witness: after a cycle in which a store operation failed, its process
\* sleeps, the lock is free, and the other process is waiting for it.
C24_Witness ==
    \E p, q \in Procs :
        /\ pc[p] = "sleep"
        /\ pc[q] = "sleep_wait"
        /\ lock_holder = NoProc
        /\ faults > 0

\* ------------------------------------------------------ writes and the lock
\* C25: every write to a job row is made by the holder of the instance lock,
\* and a process that is starting up changes no job that a process in the
\* middle of a cycle has claimed and not yet reconciled.
C25_WritesUnderLock ==
    [][\A p \in Procs :
           /\ Steps(p) /\ tweets' # tweets => lock_holder = p
           /\ pc[p] \in StartupLocs /\ Steps(p) =>
                  \A q \in Procs \ {p} :
                      pc[q] \in ClaimHeld =>
                          tweets'[tweet_id(q)] = tweets[tweet_id(q)]]_vars

\* ----------------------------------------------------------- startup recovery
\* The tables a scheduler is started on after an earlier run was killed in the
\* middle of a claim: job 1 is still processing under the token of that run.
InitRestart ==
    /\ \E u \in Owners, t \in Schedules :
           tweets = [j \in JobIds |->
                        RowWithStatus(j, u[j], t[j],
                                      IF j = 1 THEN "processing" ELSE "pending")]
    /\ users = [u \in UserIds |-> IF u = "alice" THEN <<"token_alice">> ELSE NULL]
    /\ config = [required |-> TRUE, RENDER_DATABASE_URL |-> TRUE]
    /\ faults = 0
    /\ now = 0
    /\ lock_holder = NoProc
    /\ pc = [p \in Procs |-> "stopped"]
    /\ batch = [p \in Procs |-> << >>]
    /\ processing_id = [p \in Procs |-> NULL]
    /\ access_token = [p \in Procs |-> NULL]
    /\ timestamp = [p \in Procs |-> NULL]
    /\ published = {}
    /\ attempts = [p \in Procs |-> 0]
    /\ cycle_pubs = [p \in Procs |-> << >>]
    /\ last_post = [p \in Procs |-> NULL]
    /\ issued = {}
    /\ failures = [j \in DOMAIN tweets |-> 0]
    /\ lock_file = NULL
    /\ session = NULL /\ request = NULL /\ response = NULL
    /\ sqlite_sequence = NumJobs

\* One scheduler process started on those tables, with store failures and kills.
SpecRestart == InitRestart /\ [][NextSolo]_vars

\* C26: startup recovery runs before any claim. A process enters the poll loop
\* only by the step that ends the startup reset, and at that step every job
\* that was processing has become pending with token and claim timestamp
\* cleared and nothing else changed, also when the reset statement fails; and
\* no claim is made from outside the loop.
C26_StartupRecovery ==
    [][\A p \in Procs :
           /\ pc'[p] \in LoopLocs /\ pc[p] \notin LoopLocs =>
                  /\ StartupResetStep(p)
                  /\ \A j \in DOMAIN tweets :
                         tweets[j].status = "processing" =>
                             tweets'[j] = [tweets[j] EXCEPT !.status = "pending",
                                                            !.processing_id = NULL,
                                                            !.processing_started = NULL]
                  /\ \A j \in DOMAIN tweets : tweets'[j].status # "processing"
           /\ \A j \in DOMAIN tweets : AtomicClaim(p, j) => pc[p] \in LoopLocs]_vars

\* ------------------------------------------------------------ terminal states
\* C27: terminal states are absorbing. No step changes the status, the
\* retry_count or the posted_at of a job that is posted or failed.
C27_TerminalAbsorbing ==
    [][\A j \in DOMAIN tweets :
           tweets[j].status \in {"posted", "failed"} =>
               /\ tweets'[j].status = tweets[j].status
               /\ tweets'[j].retry_count = tweets[j].retry_count
               /\ tweets'[j].posted_at = tweets[j].posted_at]_vars

\* C27 witness: with one job posted after a counted failure, one process is in
\* the middle of a claim on the other job and another process is about to run
\* the startup reset.
C27_Witness ==
    /\ \E j \in DOMAIN tweets : tweets[j].status = "posted" /\ tweets[j].retry_count > 0
    /\ \E p, q \in Procs :
           /\ pc[p] = "reset" /\ pc[q] \in ClaimHeld
           /\ tweets[tweet_id(q)].status = "processing"

\* ---------------------------------------------------------------- retry count
\* C28: retry count is bounded and tied to status. In every state
\* 0 <= retry_count <= 3, a job with retry_count 3 is failed, and a failed job
\* has retry_count 3 unless its owner has no credential (then it was never
\* published and its count is 0); and no step decreases retry_count.
C28_RetryBounded ==
    /\ [](\A j \in DOMAIN tweets :
              /\ tweets[j].retry_count \in 0..RetryCeiling
              /\ tweets[j].retry_count = RetryCeiling => tweets[j].status = "failed"
              /\ tweets[j].status = "failed" =>
                     \/ tweets[j].retry_count = RetryCeiling
                     \/ users[tweets[j].user_id] = NULL /\ tweets[j].retry_count = 0)
    /\ [][\A j \in DOMAIN tweets :
              tweets'[j].retry_count >= tweets[j].retry_count]_vars

\* C28 witness: one job is failed after three counted failures and another is
\* failed with count 0 because its owner has no credential.
C28_Witness ==
    \E i, j \in DOMAIN tweets :
        /\ tweets[i].status = "failed" /\ tweets[i].retry_count = RetryCeiling
        /\ tweets[j].status = "failed" /\ tweets[j].retry_count = 0

\* ------------------------------------------------------------------ posted_at
\* C29: posted_at is set exactly on success. In every state a job has a
\* non-null posted_at if and only if its status is posted, and a posted job is
\* one for which a publish call has succeeded.
C29_PostedAtIffPosted ==
    \A j \in DOMAIN tweets :
        /\ tweets[j].posted_at # NULL <=> tweets[j].status = "posted"
        /\ tweets[j].status = "posted" => j \in published

\* C29 witness: one job is posted with posted_at set, while another, whose
\* publish call succeeded too, is not posted and has no posted_at.
C29_Witness ==
    \E j, k \in DOMAIN tweets :
        /\ tweets[j].status = "posted" /\ tweets[j].posted_at # NULL
        /\ k \in published /\ tweets[k].status # "posted" /\ tweets[k].posted_at = NULL

\* ------------------------------------------------------------ one poll cycle
\* C30: batch bound and one attempt per cycle. The list a cycle works on has at
\* most 5 jobs, no job twice, and only ever loses its head; a claim is always
\* a claim of the head of the list, and the head is dropped before the next
\* claim; so a cycle claims at most 5 jobs, each at most once. The jobs passed
\* to the publish call in a cycle are distinct and none of them is still to
\* come in the list: a job that the retry UPDATE returns to pending is not
\* claimed or published again before the next fetch.
C30_OneAttemptPerCycle ==
    /\ [](\A p \in Procs :
              /\ Len(batch[p]) <= BatchLimit /\ IsInjective(batch[p])
              /\ Len(cycle_pubs[p]) <= BatchLimit /\ IsInjective(cycle_pubs[p])
              /\ \A a \in 1..Len(cycle_pubs[p]) : \A b \in 2..Len(batch[p]) :
                     cycle_pubs[p][a] # batch[p][b]
              /\ pc[p] \in {"claim_select", "claim_update"} =>
                     Head(batch[p]) \notin Range(cycle_pubs[p]))
    /\ [][\A p \in Procs :
              /\ batch'[p] # batch[p] =>
                     pc[p] = "fetch" \/ batch'[p] = Tail(batch[p])
              /\ \A j \in DOMAIN tweets :
                     AtomicClaim(p, j) => j = Head(batch[p]) /\ batch'[p] = batch[p]
              /\ pc[p] \in ClaimHeld /\ pc'[p] \in {"claim_select", "claim_update"} =>
                     batch'[p] = Tail(batch[p])
              /\ /\ pc[p] = "mark_retry" /\ Steps(p)
                 /\ tweets'[tweet_id(p)].status = "pending"
                 => tweet_id(p) \notin Range(batch'[p])]_vars

\* C30 witness: at the end of a cycle that was given five of the six due jobs,
\* four have been passed to the publish call (the fifth has no credential), one
\* of them is pending again after its failure, and the sixth job has not been
\* touched.
C30_Witness ==
    \E p \in Procs :
        /\ pc[p] = "release"
        /\ Len(cycle_pubs[p]) = BatchLimit - 1
        /\ \E j \in Range(cycle_pubs[p]) :
               tweets[j].status = "pending" /\ tweets[j].retry_count = 1
        /\ tweets[BatchLimit + 1] = InitRow("alice", 0, Message(BatchLimit + 1),
                                            Visibility(BatchLimit + 1))

\* ------------------------------------------------------------------ C31
\* The job rows holding a live claim of process p: processing under the token p
\* issued and still has in its local processing_id.
ClaimsOf(p) ==
    {j \in DOMAIN tweets : /\ tweets[j].status = "processing"
                           /\ processing_id[p] # NULL
                           /\ tweets[j].processing_id = processing_id[p]}

\* C31: when no store operation fails, the jobs of a batch are handled one at a
\* time. Every processing row is the current job of a process that is between
\* its claim and its reconciliation and holds the row's token; a process has at
\* most one such row; and when a process claims a job, no row is in processing
\* any more: the claim, dispatch and reconciliation of the previous job of the
\* batch are finished.
C31_OneJobAtATime ==
    /\ [](\A j \in DOMAIN tweets :
              tweets[j].status = "processing" =>
                  \E p \in Procs : /\ pc[p] \in ClaimHeld
                                   /\ tweet_id(p) = j
                                   /\ ClaimsOf(p) = {j})
    /\ [](\A p \in Procs : Cardinality(ClaimsOf(p)) <= 1)
    /\ [][\A p \in Procs, j \in DOMAIN tweets :
              AtomicClaim(p, j) =>
                  /\ \A k \in DOMAIN tweets : tweets[k].status # "processing"
                  /\ ClaimsOf(p)' = {j}]_vars

\* A process has taken the first job of its batch through dispatch and
\* reconciliation and now holds the claim of the second.
C31_Witness ==
    \E p \in Procs :
        /\ pc[p] \in ClaimHeld
        /\ Len(cycle_pubs[p]) = 1
        /\ cycle_pubs[p][1] # tweet_id(p)
        /\ tweets[cycle_pubs[p][1]].status = "posted"
        /\ ClaimsOf(p) = {tweet_id(p)}

\* ------------------------------------------------------------------ C32
\* C32: a store error during the credential lookup releases the claim. Once the
\* lookup has raised, the step that leaves the handler (the reset UPDATE and
\* `continue`) leaves the job pending with token and claim timestamp cleared
\* and retry_count unchanged, no status_post call was made for the claim, and
\* the process goes on with the rest of the batch.
C32_LookupErrorReleasesClaim ==
    [][\A p \in Procs :
           pc[p] = "reset_claim" /\ Steps(p) /\ pc'[p] # "stopped" =>
               /\ tweets'[tweet_id(p)].status = "pending"
               /\ tweets'[tweet_id(p)].processing_id = NULL
               /\ tweets'[tweet_id(p)].processing_started = NULL
               /\ tweets'[tweet_id(p)].retry_count = tweets[tweet_id(p)].retry_count
               /\ attempts[p] = 0
               /\ published' = published
               /\ batch'[p] = Tail(batch[p])]_vars

\* ------------------------------------------------------------------ C33
\* One scheduler started on the loaded configuration with the store reachable:
\* no store operation fails and the process takes its next step.
SpecStart == Init /\ [][NextMany]_vars /\ WF_vars(SoloNormal)

\* C33: startup succeeds on a complete configuration. When every setting that
\* check_config requires is present and the store is reachable, check_config
\* returns true, the schema check and the startup reset run and the scheduler
\* enters the poll loop.
C33_StartupSucceeds ==
    RequiredPresent => <>(pc[Solo] \in LoopLocs)

\* ------------------------------------------------------------------ C34
\* C34: no busy spin. A process reaches acquire_lock only from startup (its
\* first attempt) or from a sleep, and the sleep lasts one poll interval; an
\* attempt leads into the cycle or, when it failed, to the sleep; every way out
\* of a cycle (no due job, jobs processed, an exception) leads to the sleep at
\* the end of the loop body; and a sleep is followed by nothing but the next
\* attempt.
C34_NoBusySpin ==
    [][\A p \in Procs :
           Steps(p) /\ pc'[p] # "stopped" =>
               /\ pc'[p] = "acquire" => pc[p] \in {"reset", "sleep", "sleep_wait"}
               /\ pc[p] \in {"sleep", "sleep_wait"} =>
                      pc'[p] = "acquire" /\ now' = Min(now + 1, MaxTime)
               /\ pc[p] = "acquire" => pc'[p] \in {"fetch", "sleep_wait"}
               /\ pc[p] \in CycleLocs /\ pc'[p] \notin CycleLocs => pc'[p] = "sleep"]_vars

\* One process sleeps after a failed attempt while the other sleeps after a
\* cycle in which it processed the job; the clock can still advance.
C34_Witness ==
    \E p, q \in Procs :
        /\ pc[p] = "sleep_wait"
        /\ pc[q] = "sleep"
        /\ now < MaxTime
        /\ tweets[1].status = "posted"

\* ------------------------------------------------------------------ C37
\* verify_processing_id called by the lock holder for the head of its batch
\* with the row in any status or deleted, and the row's token either the
\* caller's or another one.
InitVerify ==
    /\ \E u \in Owners, t \in Schedules, st \in [JobIds -> Statuses],
          gone \in {{}} \cup {{j} : j \in JobIds} :
           tweets = [j \in JobIds \ gone |-> RowWithStatus(j, u[j], t[j], st[j])]
    /\ users = [u \in UserIds |-> IF u = "alice" THEN <<"token_alice">> ELSE NULL]
    /\ config = [required |-> TRUE, RENDER_DATABASE_URL |-> TRUE]
    /\ faults = 0
    /\ now = MaxTime
    /\ lock_holder = Solo
    /\ pc = [p \in Procs |-> IF p = Solo THEN "verify_pre" ELSE "stopped"]
    /\ \E j, k \in JobIds, ts \in 0..MaxTime :
           /\ j # k
           /\ batch = [p \in Procs |-> IF p = Solo THEN <<j, k>> ELSE << >>]
           /\ processing_id = [p \in Procs |-> IF p = Solo THEN Token(j, ts) ELSE NULL]
           /\ timestamp = [p \in Procs |-> IF p = Solo THEN <<ts>> ELSE NULL]
    /\ access_token = [p \in Procs |-> IF p = Solo THEN <<"token_alice">> ELSE NULL]
    /\ published = {}
    /\ attempts = [p \in Procs |-> 0]
    /\ cycle_pubs = [p \in Procs |-> << >>]
    /\ last_post = [p \in Procs |-> NULL]
    /\ issued = {}
    /\ failures = [j \in DOMAIN tweets |-> 0]
    /\ lock_file = NULL
    /\ session = NULL /\ request = NULL /\ response = NULL
    /\ sqlite_sequence = NumJobs

NextVerify == VerifyBeforePost(Solo) \/ VerifyError(Solo)

SpecVerify == InitVerify /\ [][NextVerify]_vars

\* C37: verify_processing_id is read-only and exact. The check changes no row
\* of either table, and the caller goes on as owner exactly when the check did
\* not raise and the row exists, is in status processing and stores the
\* caller's token; on a store error the answer is false.
C37_VerifyExact ==
    [][\A p \in Procs :
           pc[p] = "verify_pre" /\ Steps(p) =>
               /\ tweets' = tweets
               /\ users' = users
               /\ pc'[p] = "publish" <=>
                      /\ faults' = faults
                      /\ tweet_id(p) \in DOMAIN tweets
                      /\ tweets[tweet_id(p)].status = "processing"
                      /\ tweets[tweet_id(p)].processing_id = processing_id[p]
               /\ faults' # faults => pc'[p] # "publish"]_vars

\* The check has answered true: the caller is about to publish the job whose
\* row is processing under its token, while another row of the table is
\* processing under a token that is not the caller's.
C37_Witness ==
    /\ pc[Solo] = "publish"
    /\ tweets[tweet_id(Solo)].processing_id = processing_id[Solo]
    /\ \E j \in DOMAIN tweets \ {tweet_id(Solo)} :
           tweets[j].status = "processing" /\ tweets[j].processing_id # NULL

\* ------------------------------------------------------------------ C38
\* C38: a failed attempt to acquire the instance lock does not disturb the
\* holder. The attempt that returns no handle leaves the lock with its holder
\* and leaves the holder's process id in the lock file.
C38_FailedAcquireFrame ==
    [][\A p \in Procs :
           pc[p] = "acquire" /\ pc'[p] = "sleep_wait" =>
               /\ lock_holder' = lock_holder
               /\ lock_holder \in Procs \ {p}
               /\ lock_file = <<lock_holder>> => lock_file' = lock_file]_vars

\* ================================================================ web app
\* The routes of the web app that write the tweets table and the session. A
\* request is the route with its URL parameter and form fields (NULL: field
\* absent or empty); a response is the status code with the redirect target or
\* the kind of body.
Request(route, id, user, message, schedule_time, visibility) ==
    [route |-> route, tweet_id |-> id, user |-> user, message |-> message,
     schedule_time |-> schedule_time, visibility |-> visibility]

Response(code, body) == [code |-> code, body |-> body]

\* get_user: session.get("user_id", None)
get_user == session

\* The form posted to /add_tweet.
AddTweetForms ==
    {Request("add_tweet", 0, NULL, m, t, v) :
        m \in {NULL, Message(0)},
        t \in {NULL} \cup {<<x>> : x \in 0..MaxTime},
        v \in {NULL, <<"unlisted">>}}

\* The history counter follows the rows of the table.
FailuresOn(ids) == [j \in ids |-> IF j \in DOMAIN failures THEN failures[j] ELSE 0]

\* /callback: the user authenticated at Mastodon; session["user_id"] = mastodon_id.
Callback(u) ==
    /\ request' = Request("callback", 0, <<u>>, NULL, NULL, NULL)
    /\ session' = <<u>>
    /\ response' = Response(302, "index")
    /\ UNCHANGED <<store, env, lock_holder, locals, history, lock_file, sqlite_sequence>>

\* /logout: session.pop("user_id", None)
Logout ==
    /\ request' = Request("logout", 0, NULL, NULL, NULL, NULL)
    /\ session' = NULL
    /\ response' = Response(302, "index")
    /\ UNCHANGED <<store, env, lock_holder, locals, history, lock_file, sqlite_sequence>>

\* Mutant: the form is not validated.
AddTweet_NoValidation(req) ==
    /\ sqlite_sequence < MaxRows
    /\ request' = req
    /\ IF get_user = NULL
       THEN /\ response' = Response(302, "login")
            /\ UNCHANGED <<tweets, sqlite_sequence, failures>>
       ELSE /\ tweets' = [j \in DOMAIN tweets \cup {sqlite_sequence + 1} |->
                             IF j \in DOMAIN tweets THEN tweets[j]
                             ELSE InitRow(get_user[1],
                                          IF req.schedule_time = NULL THEN 0
                                          ELSE req.schedule_time[1],
                                          req.message,
                                          Coalesce(req.visibility, <<"public">>))]
            /\ sqlite_sequence' = sqlite_sequence + 1
            /\ failures' = FailuresOn(DOMAIN tweets')
            /\ response' = Response(302, "index")
    /\ UNCHANGED <<users, env, lock_holder, locals, published, attempts, cycle_pubs,
                   last_post, issued, lock_file, session>>

\* add_tweet: no user -> redirect to login; message or schedule time missing
\* or empty -> 400; else INSERT (user_id, message, schedule_time, visibility,
\* status 'pending', created_at), the other columns at their defaults, and
\* redirect to the index.
AddTweet(req) ==
    /\ sqlite_sequence < MaxRows
    /\ request' = req
    /\ IF get_user = NULL
       THEN /\ response' = Response(302, "login")
            /\ UNCHANGED <<tweets, sqlite_sequence, failures>>
       ELSE IF req.message = NULL \/ req.schedule_time = NULL
       THEN /\ response' = Response(400, "error")
            /\ UNCHANGED <<tweets, sqlite_sequence, failures>>
       ELSE /\ tweets' = [j \in DOMAIN tweets \cup {sqlite_sequence + 1} |->
                             IF j \in DOMAIN tweets THEN tweets[j]
                             ELSE InitRow(get_user[1], req.schedule_time[1], req.message,
                                          Coalesce(req.visibility, <<"public">>))]
            /\ sqlite_sequence' = sqlite_sequence + 1
            /\ failures' = FailuresOn(DOMAIN tweets')
            /\ response' = Response(302, "index")
    /\ UNCHANGED <<users, env, lock_holder, locals, published, attempts, cycle_pubs,
                   last_post, issued, lock_file, session>>

\* add_tweet: the store raises; nothing is committed and the answer is 500.
AddTweetError(req) ==
    /\ get_user # NULL /\ req.message # NULL /\ req.schedule_time # NULL
    /\ Fault
    /\ request' = req
    /\ response' = Response(500, "error")
    /\ UNCHANGED <<store, config, now, lock_holder, locals, history, lock_file, session,
                   sqlite_sequence>>

\* Mutant: the DELETE does not look at the owner.
DeleteTweet_AnyOwner(id) ==
    /\ request' = Request("delete_tweet", id, NULL, NULL, NULL, NULL)
    /\ IF get_user = NULL
       THEN /\ response' = Response(302, "login")
            /\ UNCHANGED <<tweets, failures>>
       ELSE LET rows == {j \in DOMAIN tweets : j = id}
            IN  /\ tweets' = [j \in DOMAIN tweets \ rows |-> tweets[j]]
                /\ failures' = FailuresOn(DOMAIN tweets')
                /\ response' = IF rows = {} THEN Response(404, "not found")
                               ELSE Response(200, "success")
    /\ UNCHANGED <<users, env, lock_holder, locals, published, attempts, cycle_pubs,
                   last_post, issued, lock_file, session, sqlite_sequence>>

\* delete_tweet: no user -> redirect to login; else DELETE FROM tweets WHERE
\* id = ? AND user_id = ?; rowcount 0 -> 404, else success.
DeleteTweet(id) ==
    /\ request' = Request("delete_tweet", id, NULL, NULL, NULL, NULL)
    /\ IF get_user = NULL
       THEN /\ response' = Response(302, "login")
            /\ UNCHANGED <<tweets, failures>>
       ELSE LET rows == {j \in DOMAIN tweets : j = id /\ tweets[j].user_id = get_user[1]}
            IN  /\ tweets' = [j \in DOMAIN tweets \ rows |-> tweets[j]]
                /\ failures' = FailuresOn(DOMAIN tweets')
                /\ response' = IF rows = {} THEN Response(404, "not found")
                               ELSE Response(200, "success")
    /\ UNCHANGED <<users, env, lock_holder, locals, published, attempts, cycle_pubs,
                   last_post, issued, lock_file, session, sqlite_sequence>>

\* delete_tweet: the store raises; nothing is committed and the answer is 500.
DeleteTweetError(id) ==
    /\ get_user # NULL
    /\ Fault
    /\ request' = Request("delete_tweet", id, NULL, NULL, NULL, NULL)
    /\ response' = Response(500, "error")
    /\ UNCHANGED <<store, config, now, lock_holder, locals, history, lock_file, session,
                   sqlite_sequence>>

\* The ids a delete request can name: the ids given out so far and one more.
RequestIds == 1..(MaxRows + 1)

NextWeb ==
    \/ \E u \in UserIds : Callback(u)
    \/ Logout
    \/ \E req \in AddTweetForms : AddTweet(req) \/ AddTweetError(req)
    \/ \E id \in RequestIds : DeleteTweet(id) \/ DeleteTweetError(id)

\* The web app serving requests on the tables the scheduler is started on.
SpecWeb == Init /\ [][NextWeb]_vars

\* ------------------------------------------------------------------ C35
\* C35: every job created through add_tweet starts pending with retry_count 0,
\* no posted_at and the session user as owner. A step creates a row only as the
\* answer to an add_tweet request with a message and a schedule time from a
\* logged-in user, and creates one row; an add_tweet request without a message
\* or schedule time, or without a logged-in user, leaves the table as it was.
C35_AddTweetCreatesPending ==
    [][LET created == DOMAIN tweets' \ DOMAIN tweets
       IN  /\ \A j \in created :
                  /\ request'.route = "add_tweet"
                  /\ session # NULL
                  /\ request'.message # NULL /\ request'.schedule_time # NULL
                  /\ tweets'[j].status = "pending"
                  /\ tweets'[j].retry_count = 0
                  /\ tweets'[j].posted_at = NULL
                  /\ tweets'[j].user_id = session[1]
                  /\ tweets'[j].message = request'.message
                  /\ tweets'[j].schedule_time = request'.schedule_time[1]
                  /\ tweets'[j].processing_id = NULL
                  /\ created = {j}
           /\ \A j \in DOMAIN tweets \cap DOMAIN tweets' : tweets'[j] = tweets[j]
           /\ /\ request'.route = "add_tweet"
              /\ session = NULL \/ request'.message = NULL \/ request'.schedule_time = NULL
              => tweets' = tweets /\ response'.code \in {302, 400}
           /\ request'.route = "add_tweet" /\ response'.code = 302 /\ session # NULL
              => created # {}]_vars

\* Bob, logged in, has added a job to the table: the new row is his and pending.
C35_Witness ==
    /\ request # NULL /\ request.route = "add_tweet"
    /\ response = Response(302, "index")
    /\ session = <<"bob">>
    /\ sqlite_sequence \in DOMAIN tweets
    /\ sqlite_sequence > NumJobs
    /\ tweets[sqlite_sequence].user_id = "bob"
    /\ tweets[sqlite_sequence].status = "pending"

\* ------------------------------------------------------------------ C36
\* C36: delete_tweet removes a job only when its owner is the logged-in user.
\* A step removes a row only as the answer to a delete_tweet request from the
\* row's owner, removes exactly the requested row and answers success; a
\* request for a job of another user or for a missing id leaves the table as it
\* was and answers 404; a request without a logged-in user leaves the table as
\* it was.
C36_DeleteOnlyOwn ==
    [][LET removed == DOMAIN tweets \ DOMAIN tweets'
       IN  /\ \A j \in removed :
                  /\ request'.route = "delete_tweet"
                  /\ request'.tweet_id = j
                  /\ session # NULL
                  /\ tweets[j].user_id = session[1]
                  /\ response' = Response(200, "success")
                  /\ removed = {j}
           /\ \A j \in DOMAIN tweets \cap DOMAIN tweets' : tweets'[j] = tweets[j]
           /\ request'.route = "delete_tweet" =>
                  /\ session = NULL => tweets' = tweets /\ response' = Response(302, "login")
                  /\ /\ session # NULL
                     /\ faults' = faults
                     /\ \/ request'.tweet_id \notin DOMAIN tweets
                        \/ tweets[request'.tweet_id].user_id # session[1]
                     => tweets' = tweets /\ response'.code = 404
                  /\ /\ session # NULL
                     /\ faults' = faults
                     /\ request'.tweet_id \in DOMAIN tweets
                     /\ tweets[request'.tweet_id].user_id = session[1]
                     => DOMAIN tweets' = DOMAIN tweets \ {request'.tweet_id}
                  /\ faults' # faults => tweets' = tweets /\ response'.code = 500]_vars

\* Alice has deleted her job 1 while a job of bob is in the table, untouched.
C36_Witness ==
    /\ request # NULL /\ request.route = "delete_tweet"
    /\ response = Response(200, "success")
    /\ session = <<"alice">>
    /\ request.tweet_id = 1
    /\ 1 \notin DOMAIN tweets
    /\ \E j \in DOMAIN tweets : tweets[j].user_id = "bob"
====
